---- MODULE Spec2Model ----
(***************************************************************************)
(* A model of the import classifier and sorter:                            *)
(*   classify_imports.py           (classify_base, both interpreter         *)
(*                                  branches, _find_local, _get_app, sort)  *)
(*   aspy/refactor_imports/*.py    (classify_import, sort, import objects)  *)
(*                                                                         *)
(* Python strings are sequences of code points, so that str.lower,         *)
(* str.partition and the ordering of strings are computed, not assumed.    *)
(***************************************************************************)
EXTENDS Integers, Sequences, FiniteSets, TLC

VARIABLES
    texts,      \* the source texts handed to the statement constructors
    strMemo,    \* lru_cache of import_obj_from_str: set of [s, obj]
    runtime,    \* which branch of classify_imports.py:81 is compiled
    sys_path0,  \* sys.path[0], the entry the interpreter puts in front of
                \* PYTHONPATH when it starts
    dirIno,     \* path of a directory -> its inode, NoIno when stat() fails
    fsPkg,      \* inode -> base -> what the entry `<base>` of the directory is
    fsMod,      \* inode -> base -> what the entry `<base>.py` of the directory is
    sysFinds,   \* the names import resolution finds outside the application
    pythonpath, \* os.environ's PYTHONPATH: path names and os.pathsep's, <<>> unset
    memo,       \* lru_cache of classify_base: set of [key, base, settings, ret]
    appMemo,    \* lru_cache of _get_app / _get_path: set of [dirs, ret]
    settings,   \* the Settings value of the call
    base,       \* the base name handed to the classifier
    imports,    \* the statements handed to sort
    opts,       \* the keyword options of the aspy sort; the way a call of
                \* classify_base is written
    call,       \* the operation that has run, "none" before it
    ret,        \* what the operation returned, or Raised
    probes,     \* the accesses of the last call to the file system and to
                \* import resolution, in the order they were made
    history     \* what a caller that keeps calling has done so far: its
                \* calls with what they returned, the changes of the
                \* directories, the clearings of the caches

vars == <<texts, strMemo, runtime, sys_path0, dirIno, fsPkg, fsMod, sysFinds, pythonpath, memo, appMemo,
          settings, base, imports, opts, call, ret, probes,
          history>>

(***************************************************************************)
(* Strings                                                                 *)
(***************************************************************************)

\* None is no string: a code point no identifier holds.
None == <<0>>

\* '.', the separator of str.partition and of relative imports
s_dot == <<46>>

s_empty == <<>>
s_future == <<95, 95, 102, 117, 116, 117, 114, 101, 95, 95>>
s_main == <<95, 95, 109, 97, 105, 110, 95, 95>>
s_distutils == <<100, 105, 115, 116, 117, 116, 105, 108, 115>>
s_os == <<111, 115>>
s_sys == <<115, 121, 115>>
s_pkg == <<112, 107, 103>>
s_Pkg == <<80, 107, 103>>
s_lib == <<108, 105, 98>>
s_a == <<97>>
s_b == <<98>>
s_tests == <<116, 101, 115, 116, 115>>
s_testsx == <<116, 101, 115, 116, 115, 120>>
s_sep == <<47>>
s_py == <<46, 112, 121>>
s_notlocal == <<46, 110, 111, 116, 108, 111, 99, 97, 108>>
s_os_path == <<111, 115, 46, 112, 97, 116, 104>>
s_0 == <<48>>
s_1 == <<49>>

\* str.lower() of a code point up to 255
LowerChar(c) ==
    IF \/ c >= 65 /\ c =< 90
       \/ c >= 192 /\ c =< 222 /\ c # 215
        THEN c + 32
        ELSE c

lower(s) == [i \in 1..Len(s) |-> LowerChar(s[i])]

\* x or ''
OrEmpty(x) == IF x = None THEN s_empty ELSE x

\* '.' * n
RECURSIVE Dots(_)
Dots(n) == IF n = 0 THEN <<>> ELSE s_dot \o Dots(n - 1)

\* s.partition('.')[0]: the text before the first dot, all of s without one
RECURSIVE partition0(_)
partition0(s) ==
    IF s = <<>> THEN <<>>
    ELSE IF <<Head(s)>> = s_dot THEN <<>>
    ELSE <<Head(s)>> \o partition0(Tail(s))

\* a < b on str: code point by code point, a proper prefix is smaller
RECURSIVE StrLt(_, _)
StrLt(a, b) ==
    IF b = <<>> THEN FALSE
    ELSE IF a = <<>> THEN TRUE
    ELSE IF Head(a) # Head(b) THEN Head(a) < Head(b)
    ELSE StrLt(Tail(a), Tail(b))

\* a < b on tuples of str: item by item, a proper prefix is smaller
RECURSIVE TupleLt(_, _)
TupleLt(a, b) ==
    IF b = <<>> THEN FALSE
    ELSE IF a = <<>> THEN TRUE
    ELSE IF Head(a) # Head(b) THEN StrLt(Head(a), Head(b))
    ELSE TupleLt(Tail(a), Tail(b))

(***************************************************************************)
(* Classification tags                                                     *)
(***************************************************************************)

FUTURE == "FUTURE"
BUILTIN == "BUILTIN"
THIRD_PARTY == "THIRD_PARTY"
APPLICATION == "APPLICATION"

\* Classified.order
order == <<FUTURE, BUILTIN, THIRD_PARTY, APPLICATION>>

\* the outcome of a call that raised instead of returning
Raised == "RAISED"

\* _STATIC_CLASSIFICATIONS, as the set of its keys and the lookup
StaticKeys == {s_future, s_main, s_distutils, s_empty}

_STATIC_CLASSIFICATIONS(b) ==
    CASE b = s_future -> FUTURE
      [] b = s_main -> APPLICATION
      [] b = s_distutils -> THIRD_PARTY
      [] b = s_empty -> APPLICATION

(***************************************************************************)
(* The environment: directories, their entries, import resolution          *)
(***************************************************************************)

\* the directory paths a Settings value may name; "" stands for the current
\* directory as sys.path writes it
DirPaths == {".", "tests"}

\* st_ino/st_dev of the directories there are; NoIno when os.stat raises
Inodes == {"ino_cwd", "ino_tests"}
NoIno == "enoent"

\* what `<dir>/<base>` is: nothing, a real directory without entries, a real
\* directory that holds __init__.py (a regular package), a symlink to a
\* directory that holds files but no __init__.py, a real directory without
\* any permission, of which nothing can be listed or looked at; to the path
\* finders of import resolution the last three and the first directory are
\* directories without __init__.py, portions of a namespace package
PkgKinds == {"absent", "emptydir", "dir", "linkdir", "noperm"}

\* what `<dir>/<base>.py` is: nothing, a regular file, a symlink to a regular
\* file, a symlink whose target is missing
ModKinds == {"absent", "reg", "link", "dangling"}

\* where import resolution finds a name outside the current directory, or
\* what the spec of a loaded module is: nowhere, under the standard library
\* directory, under a *-packages directory, as a file of the directory ppth,
\* inside the archive ppth/fzip.zip, at an origin that is no file (frozen),
\* the file of the current directory that `python -m` runs (cwd), or not at
\* all because sys.modules['__main__'].__spec__ is None and find_spec raises
ResolveKinds ==
    {"none", "stdlib", "site", "pythonpath", "zip", "frozen", "cwd",
     "valueerror"}

\* os.pathsep, and the path names PYTHONPATH may hold beside the current
\* directory: a directory, a path that is nothing, an archive
PathSep == ":"
PathEntries == {".", "ppth", "foo", "ppth/fzip.zip"}

\* the directories of the standard library and of the installed packages,
\* as they are on sys.path
StdlibDir == "lib"
SitePackagesDir == "site-packages"

\* str.split(os.pathsep) of PYTHONPATH
RECURSIVE split(_)
split(toks) ==
    IF toks = <<>> THEN <<"">>
    ELSE LET rest == split(Tail(toks))
         IN  IF Head(toks) = PathSep THEN <<"">> \o rest
             ELSE <<Head(toks) \o Head(rest)>> \o Tail(rest)

\* the directory of a script that lies outside the current directory
ScriptDir == "bin"

\* what the interpreter puts in front of sys.path: '' for `python -c` and
\* the interactive interpreter, the current directory (`.` stands for its
\* absolute path) for `python -m` and for a script of the current
\* directory, the directory of the script for a script elsewhere
StartDirs == {"", ".", ScriptDir}

\* site.removeduppaths: every path name once, the first of each kept
RECURSIVE removeduppaths(_, _)
removeduppaths(paths, known_paths) ==
    IF paths = <<>> THEN <<>>
    ELSE IF Head(paths) \in known_paths
        THEN removeduppaths(Tail(paths), known_paths)
    ELSE <<Head(paths)>>
         \o removeduppaths(Tail(paths), known_paths \cup {Head(paths)})

\* sys.path of a program started with this PYTHONPATH: the entries of
\* PYTHONPATH, then the standard library and the installed packages, each
\* once, and in front of them sys.path[0], which the interpreter puts there
\* after the duplicates are removed
SysPath ==
    <<sys_path0>>
        \o removeduppaths(
               (IF pythonpath = <<>> THEN <<>> ELSE split(pythonpath))
                   \o <<StdlibDir, SitePackagesDir>>,
               {})

\* os.path.realpath of a path name of PYTHONPATH: '' and '.' are the current
\* directory
RealPath(p) == IF p = "" THEN "." ELSE p

\* the base names of the model: the names the environment is defined for
BaseNames ==
    {s_future, s_main, s_distutils, s_empty, s_sys, s_os, s_pkg, s_Pkg, s_lib,
     s_testsx}

\* sys.stdlib_module_names (3.10+)
stdlib_module_names == {s_future, s_distutils, s_os, s_sys}

\* sys.builtin_module_names: the modules compiled into the interpreter
builtin_module_names == {s_sys}

\* _BUILTIN_MODS = frozenset(sys.builtin_module_names)
_BUILTIN_MODS == builtin_module_names

\* path or '.'
PathOrDot(p) == IF p = "" THEN "." ELSE p

\* os.stat(path) of _path_key: the inode, NoIno for OSError
_path_key(p) ==
    LET q == PathOrDot(p)
    IN  IF q \in DirPaths THEN dirIno[q]
        ELSE IF q = "foo" THEN NoIno
        ELSE q

\* os.lstat(os.path.join(p, base)): the kind of the entry, "absent" for OSError
LstatPkg(p, b) ==
    IF dirIno[p] = NoIno THEN "absent" ELSE fsPkg[dirIno[p]][b]

\* os.lstat(os.path.join(p, f'{base}.py'))
LstatMod(p, b) ==
    IF dirIno[p] = NoIno THEN "absent" ELSE fsMod[dirIno[p]][b]

(***************************************************************************)
(* classify_imports.py: the classifier                                     *)
(***************************************************************************)

\* a _find_local that follows symbolic links: os.stat in place of os.lstat
RECURSIVE _find_local_stat(_, _)
_find_local_stat(path, b) ==
    IF path = <<>> THEN "False"
    ELSE LET p == Head(path)
             d == LstatPkg(p, b)
             f == LstatMod(p, b)
         IN  IF d = "noperm" THEN Raised
             ELSE IF d \in {"dir", "linkdir"} THEN "True"
             ELSE IF f \in {"reg", "link"} THEN "True"
             ELSE _find_local_stat(Tail(path), b)

\* _find_local: "True", "False", or Raised when os.listdir raises
RECURSIVE _find_local(_, _)
_find_local(path, b) ==
    IF path = <<>> THEN "False"
    ELSE LET p == Head(path)
             d == LstatPkg(p, b)
             f == LstatMod(p, b)
         IN  IF d = "noperm" THEN Raised
             ELSE IF d = "dir" THEN "True"
             ELSE IF f # "absent" THEN (IF f = "reg" THEN "True" ELSE "False")
             ELSE _find_local(Tail(path), b)

\* a loop over app_dirs that keeps every directory that stats
RECURSIVE AppDirsLoop_keepall(_, _)
AppDirsLoop_keepall(app_dirs, filtered_stats) ==
    IF app_dirs = <<>> THEN <<>>
    ELSE IF _path_key(Head(app_dirs)) = NoIno
        THEN AppDirsLoop_keepall(Tail(app_dirs), filtered_stats)
    ELSE <<PathOrDot(Head(app_dirs))>>
         \o AppDirsLoop_keepall(Tail(app_dirs), filtered_stats)

\* the loop of _get_app / _get_path over app_dirs: the directories that stat,
\* the first of each inode
RECURSIVE AppDirsLoop(_, _)
AppDirsLoop(app_dirs, filtered_stats) ==
    IF app_dirs = <<>> THEN <<>>
    ELSE LET p == Head(app_dirs)
             key == _path_key(p)
         IN  IF key = NoIno \/ key \in filtered_stats
                 THEN AppDirsLoop(Tail(app_dirs), filtered_stats)
                 ELSE <<PathOrDot(p)>>
                      \o AppDirsLoop(Tail(app_dirs), filtered_stats \cup {key})

\* _get_app (3.10+) and the app_dirs half of _get_path (<3.10), behind their
\* lru_cache: a cached answer is returned as it is
_get_app(app_dirs) ==
    IF \E e \in appMemo : e.dirs = app_dirs
        THEN (CHOOSE e \in appMemo : e.dirs = app_dirs).ret
        ELSE AppDirsLoop(app_dirs, {})

\* the entry of sys.path whose directory holds the name b, outside the
\* current directory; the standard library holds os.py also when os is
\* loaded frozen and distutils also when setuptools answers for it, and no
\* directory holds a __main__
LocationOf(b) ==
    CASE b = s_main -> "nowhere"
      [] b = s_distutils -> StdlibDir
      [] sysFinds[b] \in {"stdlib", "frozen"} -> StdlibDir
      [] sysFinds[b] = "site" -> SitePackagesDir
      [] sysFinds[b] = "pythonpath" -> "ppth"
      [] sysFinds[b] = "zip" -> "ppth/fzip.zip"
      [] OTHER -> "nowhere"

\* what a path finder takes for the module b in the current directory: the
\* file b.py, also through a symbolic link, or a directory b; for the name
\* '' the file `.py` only, which it knows of from the listing of the
\* directory
CwdHolds(b) ==
    IF b = s_empty
        THEN /\ fsPkg["ino_cwd"][b] # "noperm"
             /\ fsMod["ino_cwd"][b] \in {"reg", "link"}
        ELSE \/ fsMod["ino_cwd"][b] \in {"reg", "link"}
             \/ fsPkg["ino_cwd"][b] # "absent"

\* the entry e of sys.path holds the module b
EntryHolds(e, b) ==
    \/ e = LocationOf(b)
    \/ RealPath(e) = "." /\ CwdHolds(b)

\* lines 138-143 of _get_path: the keys of the PYTHONPATH entries that stat
PythonPathKeys ==
    IF pythonpath = <<>> THEN {}
    ELSE {_path_key(split(pythonpath)[i]) : i \in 1..Len(split(pythonpath))}
             \ {NoIno}

\* lines 145-158 of _get_path: sys.path without the *-packages, the entries
\* that do not stat and the entries whose key is filtered
RECURSIVE SysPathLoop(_, _)
SysPathLoop(sys_path, filtered_stats) ==
    IF sys_path = <<>> THEN <<>>
    ELSE LET p == Head(sys_path)
             key == _path_key(p)
         IN  IF p = SitePackagesDir \/ key = NoIno \/ key \in filtered_stats
                 THEN SysPathLoop(Tail(sys_path), filtered_stats)
                 ELSE <<PathOrDot(p)>>
                      \o SysPathLoop(Tail(sys_path), filtered_stats \cup {key})

\* sys_path_ret of _get_path
sys_path_ret(app_dirs) ==
    SysPathLoop(SysPath,
                ({_path_key(app_dirs[i]) : i \in 1..Len(app_dirs)} \ {NoIno})
                    \cup PythonPathKeys)

\* a finder that has a spec for every name
find_stdlib_any(app_dirs, b) == sysFinds[b] \in ResolveKinds

\* the finder half of _get_path: PathFinder.find_spec(b, path=sys_path_ret)
\* is not None
find_stdlib(app_dirs, b) ==
    \E i \in 1..Len(sys_path_ret(app_dirs)) :
        EntryHolds(sys_path_ret(app_dirs)[i], b)

\* classify_base, 3.10+ (lines 98-113), without its cache
classify_base_310(b, s) ==
    IF b \in StaticKeys THEN _STATIC_CLASSIFICATIONS(b)
    ELSE IF b \in stdlib_module_names THEN BUILTIN
    ELSE IF b \in s.unclassifiable_application_modules THEN APPLICATION
    ELSE LET found == _find_local(_get_app(s.application_directories), b)
         IN  IF found = Raised THEN Raised
             ELSE IF found = "True" THEN APPLICATION
             ELSE THIRD_PARTY

\* classify_base, <3.10 (lines 166-189), without its cache
classify_base_legacy(b, s) ==
    IF b \in StaticKeys THEN _STATIC_CLASSIFICATIONS(b)
    ELSE IF b \in s.unclassifiable_application_modules THEN APPLICATION
    ELSE IF b \in _BUILTIN_MODS THEN BUILTIN
    ELSE LET found == _find_local(_get_app(s.application_directories), b)
         IN  IF found = Raised THEN Raised
             ELSE IF found = "True" THEN APPLICATION
             ELSE IF find_stdlib(s.application_directories, b) THEN BUILTIN
             ELSE THIRD_PARTY

\* the branch of `if sys.version_info >= (3, 10)` the interpreter compiled
classify_base_body(b, s) ==
    IF runtime = "py310" THEN classify_base_310(b, s)
    ELSE classify_base_legacy(b, s)

\* whether the body of classify_base reaches _get_app / _get_path
ReachesGetApp(b, s) ==
    /\ b \notin StaticKeys
    /\ IF runtime = "py310"
          THEN b \notin stdlib_module_names
               /\ b \notin s.unclassifiable_application_modules
          ELSE b \notin s.unclassifiable_application_modules
               /\ b \notin _BUILTIN_MODS

\* the ways a call of classify_base is written: classify_base(base),
\* classify_base(base, settings) and classify_base(base, settings=settings)
CallForms == {"base", "positional", "keyword"}

\* the key functools.lru_cache makes of a call: the positional arguments,
\* then the keyword arguments behind a mark, as they are written; the
\* default of a parameter that is left out is no part of the key
CacheKey(b, s, how) ==
    CASE how = "base" -> <<b>>
      [] how = "positional" -> <<b, s>>
      [] OTHER -> <<b, "kwd_mark", "settings", s>>

\* the cache m holds an answer for the call
Cached(m, b, s, how) == \E e \in m : e.key = CacheKey(b, s, how)

\* a classify_base that takes the answer stored for the values of base and
\* settings, however the call that stored it was written
classify_base_byvalue(b, s, how) ==
    IF \E e \in memo : e.base = b /\ e.settings = s
        THEN (CHOOSE e \in memo : e.base = b /\ e.settings = s).ret
        ELSE classify_base_body(b, s)

\* classify_base behind functools.lru_cache: the answer stored under the key
\* of the call if there is one
classify_base(b, s, how) ==
    IF Cached(memo, b, s, how)
        THEN (CHOOSE e \in memo : e.key = CacheKey(b, s, how)).ret
        ELSE classify_base_body(b, s)

\* the lru_cache of classify_base after a call: a returned value is stored,
\* an exception is not
MemoAfter(m, b, s, how, r) ==
    IF r = Raised \/ Cached(m, b, s, how) THEN m
    ELSE m \cup {[key |-> CacheKey(b, s, how), base |-> b, settings |-> s,
                  ret |-> r]}

\* the lru_cache of _get_app / _get_path after a call of classify_base
AppMemoAfter(am, m, b, s, how) ==
    IF Cached(m, b, s, how)
       \/ ~ReachesGetApp(b, s)
       \/ (\E e \in am : e.dirs = s.application_directories)
        THEN am
        ELSE am \cup {[dirs |-> s.application_directories,
                       ret |-> AppDirsLoop(s.application_directories, {})]}

\* one access to the file system or to import resolution: the operation
\* (os.stat, os.lstat, os.listdir, os.path.realpath, find_spec), the
\* directory, and which entry of it ("self" the directory itself, "pkg" the
\* entry `<base>`, "mod" the entry `<base>.py`)
Probe(op, d, e) == <<op, d, e>>

\* os.stat(path or '.') of _path_key for every path of the loop
StatProbes(paths) ==
    [i \in 1..Len(paths) |-> Probe("stat", PathOrDot(paths[i]), "self")]

\* the accesses of _find_local (lines 61-78): the lstat of `<base>`, the
\* listing of a real directory, the lstat of `<base>.py`, directory after
\* directory up to the one that decides
RECURSIVE _find_local_probes(_, _)
_find_local_probes(path, b) ==
    IF path = <<>> THEN <<>>
    ELSE LET p == Head(path)
             d == LstatPkg(p, b)
             f == LstatMod(p, b)
         IN  <<Probe("lstat", p, "pkg")>>
             \o (IF d \in {"dir", "emptydir", "noperm"}
                    THEN <<Probe("listdir", p, "pkg")>> ELSE <<>>)
             \o (IF d \in {"dir", "noperm"} THEN <<>>
                 ELSE <<Probe("lstat", p, "mod")>>
                      \o (IF f # "absent" THEN <<>>
                          ELSE _find_local_probes(Tail(path), b)))

\* what _get_app / _get_path hands back when its cache is am
CachedApp(am, app_dirs) ==
    IF \E e \in am : e.dirs = app_dirs
        THEN (CHOOSE e \in am : e.dirs = app_dirs).ret
        ELSE AppDirsLoop(app_dirs, {})

\* the accesses of _get_app (lines 86-94) and of _get_path (lines 128-158)
\* when the cache am has no answer: the stat of every application directory
\* and, before 3.10, of every entry of PYTHONPATH and of every entry of
\* sys.path that is no *-packages
_get_app_probes(am, app_dirs) ==
    IF \E e \in am : e.dirs = app_dirs THEN <<>>
    ELSE IF runtime = "py310" THEN StatProbes(app_dirs)
    ELSE StatProbes(app_dirs)
         \o (IF pythonpath = <<>> THEN <<>> ELSE StatProbes(split(pythonpath)))
         \o StatProbes(SelectSeq(SysPath, LAMBDA q : q # SitePackagesDir))

\* the accesses of find_stdlib(base) (line 186), made when _find_local
\* found nothing
find_stdlib_probes(found) ==
    IF runtime = "legacy" /\ found = "False"
        THEN <<Probe("find_spec", "sys.path", "base")>> ELSE <<>>

\* the accesses of one call of classify_base whose caches are m and am: none
\* when the answer is cached or decided by the name alone
classify_base_probes(m, am, b, s, how) ==
    IF Cached(m, b, s, how) \/ ~ReachesGetApp(b, s)
        THEN <<>>
        ELSE _get_app_probes(am, s.application_directories)
             \o _find_local_probes(CachedApp(am, s.application_directories), b)
             \o find_stdlib_probes(
                    _find_local(CachedApp(am, s.application_directories), b))


(***************************************************************************)
(* aspy/refactor_imports/classify.py: the classifier                       *)
(*                                                                         *)
(* A module path is [where, dir, entry]: where it lies ("app": directly in *)
(* the application directory `dir`, "stdlib", "site", "pythonpath",        *)
(* "builtin" for the '(builtin)' marker, "notlocal" for the                *)
(* `<name>.notlocal` that stands for nothing found) and which entry of the *)
(* directory it is (a PkgKinds or ModKinds value). The name is the last     *)
(* component of the path as it is written.                                 *)
(***************************************************************************)

ModulePath(w, d, e) == [where |-> w, dir |-> d, entry |-> e, name |-> <<>>]

\* the module path with its last component
Named(module_path, n) == [module_path EXCEPT !.name = n]

\* stands for the path of a lookup that raised
RaisedPath == ModulePath("raised", ".", "absent")

\* _find_local of classify.py:51-61; os.path.isdir and os.path.exists follow
\* symlinks; RaisedPath when os.listdir raises
RECURSIVE aspy_find_local(_, _)
aspy_find_local(module_name, application_directories) ==
    IF application_directories = <<>>
        THEN Named(ModulePath("notlocal", ".", "absent"),
                   module_name \o s_notlocal)
    ELSE LET local_path == Head(application_directories)
             d == LstatPkg(local_path, module_name)
             f == LstatMod(local_path, module_name)
         IN  IF d = "noperm" THEN RaisedPath
             ELSE IF d \in {"dir", "linkdir"}
                 THEN Named(ModulePath("app", local_path, d), module_name)
             ELSE IF f \in {"reg", "link"}
                 THEN Named(ModulePath("app", local_path, f), module_name \o s_py)
             ELSE aspy_find_local(module_name, Tail(application_directories))

ModuleInfo(fnd, pth, blt) ==
    [found |-> fnd, module_path |-> pth, is_builtin |-> blt]

\* the directories a path finder takes for a portion of a namespace package
NamespaceKinds == {"emptydir", "linkdir", "noperm"}

NoPortion == ModulePath("None", ".", "absent")

\* the module path of the spec a finder has for the name b in the entry e
\* of sys.path outside the current directory: the directory of a package
\* (distutils), the file of a module
FoundIn(e, b) ==
    CASE e = StdlibDir /\ b = s_distutils ->
            Named(ModulePath("stdlib", ".", "dir"), b)
      [] e = StdlibDir -> Named(ModulePath("stdlib", ".", "reg"), b \o s_py)
      [] OTHER -> Named(ModulePath(sysFinds[b], ".", "reg"), b \o s_py)

\* PathFinder.find_spec over the entries of sys_path; every entry is asked
\* in turn (FileFinder.find_spec): a directory b with __init__.py is a
\* package, else a file b.py, also through a symbolic link, is a module,
\* else a directory b is a portion of a namespace package, which is kept
\* while the search goes on; the spec of the first package or module, else
\* the namespace of the portions, whose path starts with the first of them
\* (`portion`), else "None". For the name '' a finder looks for the file
\* `.py` in the listing of its directory and for nothing else, and the
\* listing of a directory that cannot be read is empty.
RECURSIVE PathFinderSpec(_, _, _)
PathFinderSpec(sys_path, b, portion) ==
    IF sys_path = <<>> THEN portion
    ELSE LET e == Head(sys_path)
             d == fsPkg["ino_cwd"][b]
             f == fsMod["ino_cwd"][b]
         IN  IF RealPath(e) = "." /\ b = s_empty
                 THEN IF d # "noperm" /\ f \in {"reg", "link"}
                         THEN Named(ModulePath("app", ".", f), b \o s_py)
                         ELSE PathFinderSpec(Tail(sys_path), b, portion)
             ELSE IF RealPath(e) = "." /\ d = "dir"
                 THEN Named(ModulePath("app", ".", d), b)
             ELSE IF RealPath(e) = "." /\ f \in {"reg", "link"}
                 THEN Named(ModulePath("app", ".", f), b \o s_py)
             ELSE IF RealPath(e) = "." /\ d \in NamespaceKinds
                 THEN PathFinderSpec(
                          Tail(sys_path), b,
                          IF portion = NoPortion
                              THEN Named(ModulePath("app", ".", d), b)
                              ELSE portion)
             ELSE IF e = LocationOf(b) THEN FoundIn(e, b)
             ELSE PathFinderSpec(Tail(sys_path), b, portion)

\* the names sys.modules holds when classify_import is called: classify.py
\* has imported __future__ and os.path (lines 1-3), __main__ is the program
LoadedNames == {s_future, s_os, s_main}

\* the file `python -m` runs as __main__: a module of the standard library,
\* an installed tool or a tool of the current directory
s_timeit_py == <<116, 105, 109, 101, 105, 116, 46, 112, 121>>
s_tool_py == <<116, 111, 111, 108, 46, 112, 121>>

\* setuptools/_distutils, the distutils of an installed setuptools
s__distutils == <<95>> \o s_distutils

\* sys.modules[b].__spec__, by the place of its origin: RaisedPath for the
\* ValueError of a __main__ whose __spec__ is None (a script, `python -c`),
\* an origin that is no path for a frozen module, the file `python -m` runs
\* for __main__
LoadedSpec(b) ==
    CASE sysFinds[b] = "valueerror" -> RaisedPath
      [] sysFinds[b] = "frozen" -> ModulePath("frozen", ".", "absent")
      [] sysFinds[b] = "cwd" -> Named(ModulePath("app", ".", "reg"), s_tool_py)
      [] b = s_main /\ sysFinds[b] = "stdlib" ->
            Named(ModulePath("stdlib", ".", "reg"), s_timeit_py)
      [] b = s_main -> Named(ModulePath(sysFinds[b], ".", "reg"), s_tool_py)
      [] OTHER -> Named(ModulePath(sysFinds[b], ".", "reg"), b \o s_py)

\* importlib.util.find_spec(b): the spec of the module when sys.modules
\* holds the name, without any search; else the finders of sys.meta_path in
\* turn: the finder of an installed setuptools, which answers for distutils
\* with its own package, then the path finder over sys.path. An origin
\* inside an archive (where "zip") or of a frozen module is no path that
\* exists.
find_spec(b) ==
    IF b \in LoadedNames THEN LoadedSpec(b)
    ELSE IF b = s_distutils /\ sysFinds[b] = "site"
        THEN Named(ModulePath("site", ".", "dir"), s__distutils)
    ELSE PathFinderSpec(SysPath, b, NoPortion)

\* _get_module_info of classify.py:103-118; its module_path is RaisedPath when
\* importlib.util.find_spec or os.listdir raises
_get_module_info(module_name, application_dirs) ==
    IF module_name \in builtin_module_names
        THEN ModuleInfo(TRUE, ModulePath("builtin", ".", "absent"), TRUE)
    ELSE LET spec == find_spec(module_name)
         IN  IF spec = RaisedPath THEN ModuleInfo(FALSE, RaisedPath, FALSE)
             ELSE IF spec.where = "None"
                 THEN ModuleInfo(FALSE,
                                 aspy_find_local(module_name, application_dirs),
                                 FALSE)
             ELSE IF spec.where \in {"frozen", "zip"}
                 THEN ModuleInfo(TRUE, ModulePath("builtin", ".", "absent"), TRUE)
             ELSE ModuleInfo(TRUE, spec, FALSE)

\* abspath == realpath: no component of the path is a symlink; a second path
\* to the inode of the current directory is a symlink to it
IsRealPath(module_path) ==
    /\ module_path.entry \notin {"link", "linkdir"}
    /\ \/ module_path.dir = "."
       \/ dirIno[module_path.dir] = "ino_tests"

\* os.path.abspath of a directory of DirPaths, behind the text of the
\* current directory
DirText(p) == IF p = "." THEN <<>> ELSE s_sep \o s_tests

\* os.path.abspath(module_path) of a path in or under the current directory,
\* behind the text of the current directory
PathText(module_path) ==
    IF module_path.name = <<>> THEN DirText(module_path.dir)
    ELSE DirText(module_path.dir) \o s_sep \o module_path.name

\* str.startswith
startswith(s, prefix) ==
    Len(s) >= Len(prefix) /\ SubSeq(s, 1, Len(prefix)) = prefix

\* abspath.startswith(localpath) and
\* os.sep not in abspath[len(localpath) + 1:], for the paths in or under the
\* current directory; the others do not start with the text of an
\* application directory
IsDirectChild(module_path, potential_path) ==
    /\ module_path.where \in {"app", "notlocal"}
    /\ startswith(PathText(module_path), DirText(potential_path))
    /\ \A i \in (Len(DirText(potential_path)) + 2)..Len(PathText(module_path)) :
           PathText(module_path)[i] # 47

\* os.path.exists(realpath)
PathExists(module_path) == module_path.where # "notlocal"

\* _is_a_local_path of classify.py:34-46
_is_a_local_path(module_path, potential_path) ==
    /\ IsDirectChild(module_path, potential_path)
    /\ IsRealPath(module_path)
    /\ PathExists(module_path)

\* _module_path_is_local_and_is_not_symlinked of classify.py:31-48
_module_path_is_local_and_is_not_symlinked(module_path, application_directories) ==
    \E i \in 1..Len(application_directories) :
        _is_a_local_path(module_path, application_directories[i])

\* PACKAGES_PATH in module_path
InPackagesPath(module_path) == module_path.where = "site"

\* _pythonpath_dirs of classify.py:18-23
_pythonpath_dirs ==
    IF pythonpath = <<>> THEN {}
    ELSE {RealPath(split(pythonpath)[i]) : i \in 1..Len(split(pythonpath))}
             \ {RealPath(".")}

\* os.path.split(os.path.realpath(module_path))[0]: the directory the path
\* is in; the target of a symbolic link is somewhere else, '(builtin)' and
\* `<name>.notlocal` are names in the current directory
ModDir(module_path) ==
    CASE module_path.where = "pythonpath" -> "ppth"
      [] module_path.where = "stdlib" -> StdlibDir
      [] module_path.where = "site" -> SitePackagesDir
      [] module_path.where = "app" ->
            IF module_path.entry \in {"link", "linkdir"} THEN "elsewhere"
            ELSE IF dirIno[module_path.dir] = "ino_cwd" THEN "."
            ELSE module_path.dir
      [] OTHER -> "."

\* _due_to_pythonpath of classify.py:26-28
_due_to_pythonpath(module_path) == ModDir(module_path) \in _pythonpath_dirs

\* classify_import of classify.py:124-159
classify_import(module_name, application_directories) ==
    LET b == partition0(module_name)
        info == _get_module_info(b, application_directories)
    IN  IF info.module_path = RaisedPath THEN Raised
        ELSE IF b = s_future THEN FUTURE
        ELSE IF b = s_empty THEN APPLICATION
        ELSE IF info.is_builtin THEN BUILTIN
        ELSE IF _module_path_is_local_and_is_not_symlinked(
                    info.module_path, application_directories)
            THEN APPLICATION
        ELSE IF /\ info.found
                /\ ~InPackagesPath(info.module_path)
                /\ ~_due_to_pythonpath(info.module_path)
            THEN BUILTIN
        ELSE THIRD_PARTY

\* the accesses of _find_local of classify.py:51-61: os.path.isdir of
\* `<base>`, the listing of what is a directory, os.path.exists of
\* `<base>.py`, directory after directory up to the one that has the name
RECURSIVE aspy_find_local_probes(_, _)
aspy_find_local_probes(module_name, application_directories) ==
    IF application_directories = <<>> THEN <<>>
    ELSE LET local_path == Head(application_directories)
             d == LstatPkg(local_path, module_name)
             f == LstatMod(local_path, module_name)
         IN  <<Probe("stat", local_path, "pkg")>>
             \o (IF d # "absent" THEN <<Probe("listdir", local_path, "pkg")>>
                 ELSE <<>>)
             \o (IF d \in {"dir", "linkdir", "noperm"} THEN <<>>
                 ELSE <<Probe("stat", local_path, "mod")>>
                      \o (IF f \in {"reg", "link"} THEN <<>>
                          ELSE aspy_find_local_probes(
                                   module_name, Tail(application_directories))))

\* an access to the module path of a spec
PathProbe(op, module_path) ==
    Probe(op, IF module_path.where = "app" THEN module_path.dir
              ELSE module_path.where, module_path.entry)

\* the accesses of _get_module_info after find_spec has answered: the local
\* lookup when there is no spec, os.path.exists(spec.origin) (line 113)
\* when the spec has an origin; a directory without __init__.py is a
\* namespace package, which has none
spec_probes(spec, module_name, application_dirs) ==
    IF spec = RaisedPath THEN <<>>
    ELSE IF spec.where = "None"
        THEN aspy_find_local_probes(module_name, application_dirs)
    ELSE IF spec.where = "app" /\ spec.entry \in NamespaceKinds
        THEN <<>>
    ELSE <<PathProbe("stat", spec)>>

\* the accesses of _get_module_info of classify.py:103-118: none for a
\* module compiled into the interpreter, else importlib.util.find_spec first
_get_module_info_probes(module_name, application_dirs) ==
    IF module_name \in builtin_module_names THEN <<>>
    ELSE <<Probe("find_spec", "sys.path", "base")>>
         \o spec_probes(find_spec(module_name), module_name, application_dirs)

\* the accesses of _module_path_is_local_and_is_not_symlinked: realpath of
\* the module path for every application directory up to the one it is
\* local to, os.path.exists where the other three conditions hold
RECURSIVE is_local_probes(_, _)
is_local_probes(module_path, application_directories) ==
    IF application_directories = <<>> THEN <<>>
    ELSE <<PathProbe("realpath", module_path)>>
         \o (IF /\ IsDirectChild(module_path, Head(application_directories))
                 /\ IsRealPath(module_path)
                THEN <<PathProbe("stat", module_path)>> ELSE <<>>)
         \o (IF _is_a_local_path(module_path, Head(application_directories))
                THEN <<>>
                ELSE is_local_probes(module_path, Tail(application_directories)))

\* the accesses of _due_to_pythonpath (lines 26-28): realpath of the module
\* path and, PYTHONPATH being set, of its entries and of '.'
_due_to_pythonpath_probes(module_path) ==
    <<PathProbe("realpath", module_path)>>
    \o (IF pythonpath = <<>> THEN <<>>
        ELSE [i \in 1..Len(split(pythonpath)) |->
                 Probe("realpath", PathOrDot(split(pythonpath)[i]), "self")]
             \o <<Probe("realpath", ".", "self")>>)

\* the accesses of classify_import after _get_module_info has returned
\* (lines 138-159)
classified_probes(b, info, application_directories) ==
    IF info.module_path = RaisedPath \/ b = s_future \/ b = s_empty
       \/ info.is_builtin
        THEN <<>>
    ELSE is_local_probes(info.module_path, application_directories)
         \o (IF /\ ~_module_path_is_local_and_is_not_symlinked(
                        info.module_path, application_directories)
                 /\ info.found
                 /\ ~InPackagesPath(info.module_path)
                THEN _due_to_pythonpath_probes(info.module_path) ELSE <<>>)

\* the accesses of one call of classify_import (lines 134-159):
\* _get_module_info runs before the name is looked at
classify_import_probes(module_name, application_directories) ==
    _get_module_info_probes(partition0(module_name), application_directories)
    \o classified_probes(
           partition0(module_name),
           _get_module_info(partition0(module_name), application_directories),
           application_directories)


(***************************************************************************)
(* classify_imports.py: the statements                                     *)
(*                                                                         *)
(* A statement is its ast node: [type, module, names, level], names a      *)
(* sequence of ast.alias [name, asname]. An ast.Import has no module and   *)
(* no level; the model gives it module None and level 0.                   *)
(***************************************************************************)

alias(n, a) == [name |-> n, asname |-> a]

AstImport(nms) ==
    [type |-> "Import", module |-> None, names |-> nms, level |-> 0]

AstImportFrom(m, nms, lv) ==
    [type |-> "ImportFrom", module |-> m, names |-> nms, level |-> lv]

\* isinstance(obj, Import)
IsImport(obj) == obj.type = "Import"

\* self.is_multiple
is_multiple(obj) == Len(obj.names) > 1

\* the module without the dots of a relative import
module_absolute(obj) ==
    IF IsImport(obj) THEN obj.names[1].name ELSE OrEmpty(obj.module)

\* Import.module / ImportFrom.module
module(obj) ==
    IF IsImport(obj) THEN obj.names[1].name
    ELSE Dots(obj.level) \o OrEmpty(obj.module)

\* module_base
module_base(obj) == partition0(module(obj))

\* Import.key / ImportFrom.key
key(obj) ==
    IF IsImport(obj)
        THEN <<obj.names[1].name, OrEmpty(obj.names[1].asname)>>
        ELSE <<module(obj), obj.names[1].name, OrEmpty(obj.names[1].asname)>>

tuple_lower(t) == [i \in 1..Len(t) |-> lower(t[i])]

\* a sort key of the fields as written alone, without the case-folded ones
sort_key_written(obj) ==
    <<IF IsImport(obj) THEN s_0 ELSE s_1>> \o key(obj)

\* Import.sort_key / ImportFrom.sort_key
sort_key(obj) ==
    <<IF IsImport(obj) THEN s_0 ELSE s_1>> \o tuple_lower(key(obj)) \o key(obj)

\* list.sort(key=...) and sorted(..., key=...) are stable sorts of the items
\* decorated with their keys: a pair goes behind every pair whose key is not
\* greater than its own
RECURSIVE InsertPair(_, _)
InsertPair(x, sorted) ==
    IF sorted = <<>> THEN <<x>>
    ELSE IF TupleLt(x[1], Head(sorted)[1]) THEN <<x>> \o sorted
    ELSE <<Head(sorted)>> \o InsertPair(x, Tail(sorted))

RECURSIVE SortPairs(_)
SortPairs(ps) ==
    IF ps = <<>> THEN <<>>
    ELSE InsertPair(ps[Len(ps)], SortPairs(SubSeq(ps, 1, Len(ps) - 1)))

\* the items of the sorted pairs
Undecorate(ps) == [i \in 1..Len(ps) |-> ps[i][2]]

(***************************************************************************)
(* classify_imports.py: sort                                               *)
(***************************************************************************)

\* what an operation hands back: a value, or an exception
Returned(v) == [raised |-> FALSE, value |-> v]
Raises == [raised |-> TRUE, value |-> Raised]

\* the class of the base module, a plain `import __future__` staying FUTURE
Bucket_unmoved(obj, s) == classify_base(module_base(obj), s, "keyword")

\* lines 328-330: the class of the base, a plain `import __future__` moved
\* from FUTURE to BUILTIN
Bucket(obj, s) ==
    LET tp == classify_base(module_base(obj), s, "keyword")
    IN  IF tp = FUTURE /\ IsImport(obj) THEN BUILTIN ELSE tp

\* imports_partitioned after the loop of lines 326-332 and the sorts of lines
\* 335-337: class -> its statements sorted by sort_key; a class no statement
\* fell into is no key of the defaultdict, <<>> here
imports_partitioned(imps, s) ==
    [tp \in {order[i] : i \in 1..Len(order)} |->
        LET InClass(obj) == Bucket(obj, s) = tp
            val == SelectSeq(imps, InClass)
        IN  Undecorate(SortPairs([i \in 1..Len(val) |-> <<sort_key(val[i]), val[i]>>]))]

\* the groups of all the keys of `keys`, the empty ones too
RECURSIVE EmitGroups_all(_, _)
EmitGroups_all(keys, partitioned) ==
    IF keys = <<>> THEN <<>>
    ELSE <<partitioned[Head(keys)]>> \o EmitGroups_all(Tail(keys), partitioned)

\* lines 339-342: the groups of the keys of `keys` that are in the dict
RECURSIVE EmitGroups(_, _)
EmitGroups(keys, partitioned) ==
    IF keys = <<>> THEN <<>>
    ELSE (IF partitioned[Head(keys)] # <<>>
             THEN <<partitioned[Head(keys)]>> ELSE <<>>)
         \o EmitGroups(Tail(keys), partitioned)

\* sort of classify_imports.py:321-342
sort(imps, s) ==
    IF \E i \in 1..Len(imps) :
           classify_base(module_base(imps[i]), s, "keyword") = Raised
        THEN Raises
        ELSE Returned(EmitGroups(order, imports_partitioned(imps, s)))

\* the statements sort classifies: all of them, or those up to the first
\* whose classification raises
RECURSIVE ClassifiedPrefix(_, _)
ClassifiedPrefix(imps, s) ==
    IF imps = <<>> THEN <<>>
    ELSE IF classify_base(module_base(Head(imps)), s, "keyword") = Raised
        THEN <<Head(imps)>>
    ELSE <<Head(imps)>> \o ClassifiedPrefix(Tail(imps), s)

\* the two caches after classify_base has run for the statements of imps
RECURSIVE MemoAfterAll(_, _, _)
MemoAfterAll(m, imps, s) ==
    IF imps = <<>> THEN m
    ELSE LET b == module_base(Head(imps))
         IN  MemoAfterAll(MemoAfter(m, b, s, "keyword",
                                    classify_base(b, s, "keyword")),
                          Tail(imps), s)

RECURSIVE AppMemoAfterAll(_, _, _)
AppMemoAfterAll(am, imps, s) ==
    IF imps = <<>> THEN am
    ELSE AppMemoAfterAll(AppMemoAfter(am, memo, module_base(Head(imps)), s,
                                      "keyword"),
                         Tail(imps), s)

\* the accesses of the classify_base calls of sort (line 328), one statement
\* after the other, each call with the caches the calls before left
RECURSIVE sort_probes(_, _, _, _)
sort_probes(m, am, imps, s) ==
    IF imps = <<>> THEN <<>>
    ELSE classify_base_probes(m, am, module_base(Head(imps)), s, "keyword")
         \o sort_probes(
                MemoAfter(m, module_base(Head(imps)), s, "keyword",
                          classify_base(module_base(Head(imps)), s, "keyword")),
                AppMemoAfter(am, m, module_base(Head(imps)), s, "keyword"),
                Tail(imps), s)

(***************************************************************************)
(* aspy/refactor_imports: the import objects and sort                      *)
(***************************************************************************)

\* ImportImportSortKey.from_python_ast / FromImportSortKey.from_python_ast
import_statement(obj) == key(obj)

\* ImportImport.sort_key / FromImport.sort_key
aspy_sort_key(obj) == tuple_lower(import_statement(obj)) \o import_statement(obj)

\* CLS_TO_INDEX, an int in front of the strings of the key
CLS_TO_INDEX(obj) == IF IsImport(obj) THEN <<0>> ELSE <<1>>

\* sort_within of sort.py:115-120
sort_within(obj, import_before_from) ==
    IF import_before_from THEN <<CLS_TO_INDEX(obj)>> \o aspy_sort_key(obj)
    ELSE aspy_sort_key(obj)

\* the parameters of classify_import besides module_name (classify.py:124)
ClassifyImportParams == {"application_directories"}

\* classify_import(module, **kwargs): a keyword that is no parameter is a
\* TypeError; application_directories defaults to ('.',)
CallClassifyImport(m, kwargs) ==
    IF ~(DOMAIN kwargs \subseteq ClassifyImportParams) THEN Raised
    ELSE classify_import(m, IF "application_directories" \in DOMAIN kwargs
                               THEN kwargs.application_directories
                               ELSE <<".">>)

\* sort.py:99: classify_kwargs["separate_relative"] = separate_relative
WithSeparateRelative(kwargs, separate_relative) ==
    [k \in DOMAIN kwargs \cup {"separate_relative"} |->
        IF k = "separate_relative" THEN separate_relative ELSE kwargs[k]]

\* classify_func of sort.py:101-113: the class, or whether it is FUTURE
classify_func(obj, separate, kwargs) ==
    LET tp == CallClassifyImport(import_statement(obj)[1], kwargs)
    IN  IF tp = Raised THEN Raised
        ELSE IF separate THEN tp
        ELSE IF tp = FUTURE THEN "True" ELSE "False"

\* types of sort.py:106 and 113
types(separate) == IF separate THEN order ELSE <<"True", "False">>

\* sort of sort.py:19-134
aspy_sort(imps, separate, import_before_from, separate_relative, classify_kwargs) ==
    LET kwargs == WithSeparateRelative(classify_kwargs, separate_relative)
        ts == types(separate)
        Within(obj) == sort_within(obj, import_before_from)
        partitioned ==
            [tp \in {ts[i] : i \in 1..Len(ts)} |->
                LET InSegment(obj) == classify_func(obj, separate, kwargs) = tp
                    val == SelectSeq(imps, InSegment)
                IN  Undecorate(SortPairs([i \in 1..Len(val) |->
                                             <<Within(val[i]), val[i]>>]))]
    IN  IF \E i \in 1..Len(imps) : classify_func(imps[i], separate, kwargs) = Raised
            THEN Raises
            ELSE Returned(EmitGroups(ts, partitioned))

\* the accesses of the classify_import calls of the aspy sort: a call with a
\* keyword that is no parameter never enters classify_import
RECURSIVE aspy_sort_probes(_, _)
aspy_sort_probes(imps, kwargs) ==
    IF imps = <<>> \/ ~(DOMAIN kwargs \subseteq ClassifyImportParams) THEN <<>>
    ELSE classify_import_probes(import_statement(Head(imps))[1],
                                kwargs.application_directories)
         \o (IF CallClassifyImport(import_statement(Head(imps))[1], kwargs) = Raised
                THEN <<>> ELSE aspy_sort_probes(Tail(imps), kwargs))


(***************************************************************************)
(* The inputs                                                              *)
(***************************************************************************)

\* the longest application_directories tuple
MaxAppDirs == 2

\* the most names in unclassifiable_application_modules
MaxUnclassifiable == 1

\* the longest collection handed to sort
MaxImports == 3

\* the most path names in PYTHONPATH
MaxPathEntries == 2

Runtimes == {"py310", "legacy"}

\* all tuples over S of length at most n
RECURSIVE TuplesUpTo(_, _)
TuplesUpTo(S, n) ==
    IF n = 0 THEN {<<>>}
    ELSE LET shorter == TuplesUpTo(S, n - 1)
         IN  shorter \cup {Append(t, x) : t \in shorter, x \in S}

Settings(dirs, unclassifiable) ==
    [application_directories |-> dirs,
     unclassifiable_application_modules |-> unclassifiable]

\* Settings(): application_directories=('.',), nothing force-listed
DefaultSettings == Settings(<<".">>, {})

SettingsChoices ==
    {Settings(d, u) :
        d \in TuplesUpTo(DirPaths, MaxAppDirs),
        u \in {x \in SUBSET {s_future, s_os, s_pkg} :
                    Cardinality(x) =< MaxUnclassifiable}}

\* a directory without entries; `<dir>/`, its entry of the name '', is the
\* directory itself
NoPkg == [b \in BaseNames |-> IF b = s_empty THEN "emptydir" ELSE "absent"]
NoMod == [b \in BaseNames |-> "absent"]

\* the entries pkg and mod of a directory, with what the directory itself is
\* to os.listdir: a directory with entries when it holds an entry of a name
\* of the model or more than those
Dir(pkg, mod, more) ==
    [pkg EXCEPT ![s_empty] =
        IF \/ more
           \/ \E b \in BaseNames : mod[b] # "absent"
           \/ \E b \in BaseNames \ {s_empty} : pkg[b] # "absent"
            THEN "dir" ELSE "emptydir"]

\* the entries of a directory that holds `<b>` as k and `<b>.py` as m; for
\* the name '' k says what the directory itself is
DirOf(b, k, m, more) ==
    IF b = s_empty THEN [NoPkg EXCEPT ![b] = k]
    ELSE Dir([NoPkg EXCEPT ![b] = k], [NoMod EXCEPT ![b] = m], more)

\* import resolution of the names of the model when nothing is installed
\* and the program was started from a script: os, __future__ and distutils
\* are files of the standard library, sys is compiled in, __main__ has no
\* __spec__
DefaultFinds ==
    [b \in BaseNames |->
        IF b \in {s_os, s_future, s_distutils} THEN "stdlib"
        ELSE IF b = s_main THEN "valueerror"
        ELSE "none"]

\* where import resolution may find the name b; __main__ has a spec in a
\* program started with `python -m`
FindsFor(b) ==
    CASE b = s_main -> {"valueerror", "site", "stdlib", "cwd"}
      [] b = s_distutils -> {"stdlib", "site"}
      [] b = s_os -> {"stdlib", "frozen"}
      [] b = s_pkg -> {"none", "site", "pythonpath", "stdlib"}
      [] OTHER -> {DefaultFinds[b]}

\* the statements of the model
StatementUniverse ==
    { AstImport(<<alias(s_os_path, None)>>),             \* import os.path
      AstImportFrom(s_os, <<alias(s_a, None)>>, 0),      \* from os import a
      AstImport(<<alias(s_future, None)>>),              \* import __future__
      AstImportFrom(s_future, <<alias(s_a, None)>>, 0),  \* from __future__ import a
      AstImport(<<alias(s_Pkg, None)>>),                 \* import Pkg
      AstImport(<<alias(s_lib, s_a)>>),                  \* import lib as a
      AstImportFrom(None, <<alias(s_a, None)>>, 1),      \* from . import a
      AstImportFrom(s_pkg, <<alias(s_b, None), alias(s_a, None)>>, 0),
                                                         \* from pkg import b, a
      AstImportFrom(s_pkg, <<alias(s_b, None)>>, 0)      \* from pkg import b
    }

(***************************************************************************)
(* The classifier called once: Spec                                        *)
(***************************************************************************)

\* what a directory may hold of the name b: `<dir>/` is the directory itself,
\* which has no `.py` in it when it has no entries; a directory that cannot
\* be listed can be searched, what it holds can be looked at
EntriesOf(b, k, m) ==
    b = s_empty =>
        /\ k \in {"emptydir", "dir", "noperm"}
        /\ k = "emptydir" => m = "absent"

\* the name, the settings and the environment of one classification; the
\* directories hold entries of the classified name only (the current
\* directory also the directory tests, when there is one), and a directory
\* other than the current one holds some for the program of a script
\* elsewhere (sys.path[0] is searched for what the current directory holds);
\* of unclassifiable_application_modules only the membership of the
\* classified name is read, the names beside it are os or none; `python -m`
\* puts the current directory in front of sys.path
Init ==
    /\ texts = <<>>
    /\ strMemo = {}
    /\ runtime \in Runtimes
    /\ sys_path0 \in StartDirs
    /\ base \in BaseNames \ {s_lib, s_Pkg, s_testsx}
    /\ settings \in SettingsChoices
    /\ settings.unclassifiable_application_modules \subseteq {base, s_os}
    /\ \E t \in Inodes \cup {NoIno} :
           dirIno = [p \in DirPaths |-> IF p = "." THEN "ino_cwd" ELSE t]
    /\ \E ck \in PkgKinds, cm \in ModKinds, tk \in PkgKinds, tm \in ModKinds :
           /\ EntriesOf(base, ck, cm)
           /\ (base = s_empty /\ ck = "emptydir") => dirIno["tests"] = NoIno
           /\ IF dirIno["tests"] = "ino_tests" /\ sys_path0 = ScriptDir
                  THEN EntriesOf(base, tk, tm)
              ELSE IF dirIno["tests"] = "ino_tests" /\ base = s_empty
                  THEN tk = "emptydir" /\ tm = "absent"
              ELSE tk = "absent" /\ tm = "absent"
           /\ fsPkg = [i \in Inodes |->
                        IF i = "ino_cwd"
                            THEN DirOf(base, ck, cm, dirIno["tests"] # NoIno)
                            ELSE DirOf(base, tk, tm, FALSE)]
           /\ fsMod = [i \in Inodes |->
                        [NoMod EXCEPT ![base] = IF i = "ino_cwd" THEN cm ELSE tm]]
    /\ \E k \in FindsFor(base) : sysFinds = [DefaultFinds EXCEPT ![base] = k]
    /\ sysFinds[s_main] # "valueerror" => sys_path0 = "."
    /\ pythonpath = IF sysFinds[base] = "pythonpath" THEN <<"ppth">> ELSE <<>>
    /\ memo = {}
    /\ appMemo = {}
    /\ imports = <<>>
    /\ opts = <<>>
    /\ call = "none"
    /\ ret = Returned("")
    /\ probes = <<>>
    /\ history = <<>>

\* classify_base of classify_imports.py, its caches included, written as
\* classify_base(base, settings), as classify_base(base, settings=settings)
\* or, for the default settings, as classify_base(base)
ClassifyBase ==
    /\ call = "none"
    /\ call' = "classify_base"
    /\ \E how \in CallForms :
           /\ how = "base" => settings = DefaultSettings
           /\ opts' = <<how>>
           /\ ret' = [raised |-> classify_base(base, settings, how) = Raised,
                      value |-> classify_base(base, settings, how)]
           /\ memo' = MemoAfter(memo, base, settings, how,
                                classify_base(base, settings, how))
           /\ appMemo' = AppMemoAfter(appMemo, memo, base, settings, how)
           /\ probes' = classify_base_probes(memo, appMemo, base, settings, how)
    /\ UNCHANGED <<history, texts, strMemo, runtime, sys_path0, dirIno, fsPkg, fsMod,
                   sysFinds, pythonpath, settings, base, imports>>

\* classify_import(base, application_directories) of aspy.refactor_imports
ClassifyImport ==
    /\ call = "none"
    /\ call' = "classify_import"
    /\ ret' = LET r == classify_import(base, settings.application_directories)
              IN  [raised |-> r = Raised, value |-> r]
    /\ probes' = classify_import_probes(base, settings.application_directories)
    /\ UNCHANGED <<history, texts, strMemo, runtime, sys_path0, dirIno, fsPkg, fsMod, sysFinds, pythonpath,
                   memo, appMemo,
                   settings, base, imports, opts>>

Next == ClassifyBase \/ ClassifyImport

Spec == Init /\ [][Next]_vars

(***************************************************************************)
(* The classifier called once under a PYTHONPATH: SpecPath                 *)
(***************************************************************************)

\* os.pathsep.join(entries)
RECURSIVE join(_)
join(entries) ==
    IF Len(entries) =< 1 THEN entries
    ELSE <<Head(entries), PathSep>> \o join(Tail(entries))

\* the values of PYTHONPATH: unset, or up to MaxPathEntries path names
PythonPaths == {join(t) : t \in TuplesUpTo(PathEntries, MaxPathEntries)}

\* the name, pkg or testsx, is nowhere, a file of ppth, in the archive
\* ppth/fzip.zip, in the standard library or an installed package; the
\* current directory holds <name>.py or nothing, the directory tests nothing
InitPath ==
    /\ texts = <<>>
    /\ strMemo = {}
    /\ runtime \in Runtimes
    /\ sys_path0 \in StartDirs
    /\ base \in {s_pkg, s_testsx}
    /\ settings \in {Settings(d, {}) : d \in {<<".">>, <<"tests">>, <<"tests", ".">>}}
    /\ dirIno = [p \in DirPaths |-> IF p = "." THEN "ino_cwd" ELSE "ino_tests"]
    /\ fsPkg = [i \in Inodes |-> DirOf(base, "absent", "absent", i = "ino_cwd")]
    /\ \E cm \in {"absent", "reg"} :
           fsMod = [i \in Inodes |->
                     [NoMod EXCEPT ![base] = IF i = "ino_cwd" THEN cm ELSE "absent"]]
    /\ \E k \in {"none", "pythonpath", "zip", "stdlib", "site"} :
           sysFinds = [DefaultFinds EXCEPT ![base] = k]
    /\ pythonpath \in PythonPaths
    /\ memo = {}
    /\ appMemo = {}
    /\ imports = <<>>
    /\ opts = <<>>
    /\ call = "none"
    /\ ret = Returned("")
    /\ probes = <<>>
    /\ history = <<>>

SpecPath == InitPath /\ [][Next]_vars

(***************************************************************************)
(* sort called once: SpecSort                                              *)
(***************************************************************************)

\* the current directory holds nothing, the module pkg.py, or a package pkg
\* that cannot be listed
InitSort ==
    /\ texts = <<>>
    /\ strMemo = {}
    /\ runtime \in Runtimes
    /\ sys_path0 = ScriptDir
    /\ base = s_empty
    /\ settings \in {DefaultSettings, Settings(<<".">>, {s_lib})}
    /\ dirIno = [p \in DirPaths |-> IF p = "." THEN "ino_cwd" ELSE NoIno]
    /\ \E ck \in {"absent", "noperm"}, cm \in {"absent", "reg"} :
           /\ ck = "noperm" => cm = "absent"
           /\ fsPkg = [i \in Inodes |->
                        IF i = "ino_cwd" THEN DirOf(s_pkg, ck, cm, FALSE)
                        ELSE NoPkg]
           /\ fsMod = [i \in Inodes |->
                        [NoMod EXCEPT ![s_pkg] = IF i = "ino_cwd" THEN cm ELSE "absent"]]
    /\ sysFinds = DefaultFinds
    /\ pythonpath = <<>>
    /\ memo = {}
    /\ appMemo = {}
    /\ imports \in TuplesUpTo(StatementUniverse, MaxImports)
    /\ opts = <<>>
    /\ call = "none"
    /\ ret = Returned(<<>>)
    /\ probes = <<>>
    /\ history = <<>>

\* sort(imports, settings) of classify_imports.py
Sort ==
    /\ call = "none"
    /\ call' = "sort"
    /\ ret' = sort(imports, settings)
    /\ memo' = MemoAfterAll(memo, ClassifiedPrefix(imports, settings), settings)
    /\ appMemo' = AppMemoAfterAll(appMemo, ClassifiedPrefix(imports, settings),
                                  settings)
    /\ probes' = sort_probes(memo, appMemo, ClassifiedPrefix(imports, settings),
                           settings)
    /\ UNCHANGED <<history, texts, strMemo, runtime, sys_path0, dirIno, fsPkg, fsMod, sysFinds, pythonpath,
                   settings, base,
                   imports, opts>>

\* sort(imports, separate=, import_before_from=, separate_relative=,
\*      application_directories=) of aspy.refactor_imports
AspySort ==
    /\ call = "none"
    /\ \E sep \in BOOLEAN, ibf \in BOOLEAN, rel \in BOOLEAN :
           /\ opts' = <<sep, ibf, rel>>
           /\ ret' = aspy_sort(imports, sep, ibf, rel,
                               [application_directories |->
                                    settings.application_directories])
           /\ probes' = aspy_sort_probes(
                            imports,
                            WithSeparateRelative(
                                [application_directories |->
                                     settings.application_directories], rel))
    /\ call' = "aspy_sort"
    /\ UNCHANGED <<history, texts, strMemo, runtime, sys_path0, dirIno, fsPkg, fsMod, sysFinds, pythonpath,
                   memo, appMemo,
                   settings, base, imports>>

NextSort == Sort \/ AspySort

SpecSort == InitSort /\ [][NextSort]_vars

(***************************************************************************)
(* classify_base called again and again while the directories change and   *)
(* the caches are cleared: SpecCache                                       *)
(***************************************************************************)

\* the most operations of one caller
MaxOps == 5

\* an entry of the history: the operation, the arguments of a call, the
\* way the call is written and what it returned
Event(op, b, s, how, r) ==
    [op |-> op, base |-> b, settings |-> s, form |-> how, ret |-> r]

\* the settings of the calls
CacheSettings == {DefaultSettings, Settings(<<"tests", ".">>, {})}

\* the calls of the caller: pkg under either settings, written in every way
\* the settings allow
CacheCalls ==
    {c \in {s_pkg} \X CacheSettings \X CallForms :
        c[3] = "base" => c[2] = DefaultSettings}

\* a fresh process; nothing of pkg exists and there is no directory tests
InitCache ==
    /\ texts = <<>>
    /\ strMemo = {}
    /\ runtime \in Runtimes
    /\ sys_path0 = ScriptDir
    /\ base = s_pkg
    /\ settings = DefaultSettings
    /\ dirIno = [p \in DirPaths |-> IF p = "." THEN "ino_cwd" ELSE NoIno]
    /\ fsPkg = [i \in Inodes |-> NoPkg]
    /\ fsMod = [i \in Inodes |-> NoMod]
    /\ sysFinds = DefaultFinds
    /\ pythonpath = <<>>
    /\ memo = {}
    /\ appMemo = {}
    /\ imports = <<>>
    /\ opts = <<>>
    /\ call = "none"
    /\ ret = Returned("")
    /\ probes = <<>>
    /\ history = <<>>

\* one more call of classify_base, its caches included
ClassifyBaseAgain ==
    /\ Len(history) < MaxOps
    /\ \E c \in CacheCalls :
           /\ base' = c[1]
           /\ settings' = c[2]
           /\ opts' = <<c[3]>>
           /\ ret' = [raised |-> classify_base(c[1], c[2], c[3]) = Raised,
                      value |-> classify_base(c[1], c[2], c[3])]
           /\ memo' = MemoAfter(memo, c[1], c[2], c[3],
                                classify_base(c[1], c[2], c[3]))
           /\ appMemo' = AppMemoAfter(appMemo, memo, c[1], c[2], c[3])
           /\ probes' = classify_base_probes(memo, appMemo, c[1], c[2], c[3])
           /\ history' = Append(history,
                                Event("classify_base", c[1], c[2], c[3],
                                      classify_base(c[1], c[2], c[3])))
    /\ call' = "classify_base"
    /\ UNCHANGED <<texts, strMemo, runtime, sys_path0, dirIno, fsPkg, fsMod, sysFinds,
                   pythonpath, imports>>

\* the file pkg.py of the current directory is written, or removed
TouchModule ==
    /\ Len(history) < MaxOps
    /\ fsMod' = [fsMod EXCEPT !["ino_cwd"][s_pkg] =
                     IF @ = "absent" THEN "reg" ELSE "absent"]
    /\ fsPkg' = [fsPkg EXCEPT !["ino_cwd"] =
                     Dir(@, fsMod'["ino_cwd"], dirIno["tests"] # NoIno)]
    /\ call' = "touch"
    /\ history' = Append(history, Event("touch", base, settings, "", "pkg.py"))
    /\ UNCHANGED <<texts, strMemo, runtime, sys_path0, dirIno, sysFinds, pythonpath,
                   memo, appMemo, settings, base, imports, opts, ret, probes>>

\* the directory tests is made, with a file pkg.py in it, or removed
TouchDirectory ==
    /\ Len(history) < MaxOps
    /\ dirIno' = [dirIno EXCEPT !["tests"] =
                      IF @ = NoIno THEN "ino_tests" ELSE NoIno]
    /\ fsMod' = [fsMod EXCEPT !["ino_tests"][s_pkg] =
                     IF dirIno["tests"] = NoIno THEN "reg" ELSE "absent"]
    /\ fsPkg' = [i \in Inodes |->
                     Dir(fsPkg[i], fsMod'[i],
                         i = "ino_cwd" /\ dirIno'["tests"] # NoIno)]
    /\ call' = "touch"
    /\ history' = Append(history,
                         Event("touch", base, settings, "", "tests/pkg.py"))
    /\ UNCHANGED <<texts, strMemo, runtime, sys_path0, sysFinds, pythonpath,
                   memo, appMemo, settings, base, imports, opts, ret, probes>>

\* classify_base.cache_clear() and _get_app.cache_clear() (_get_path before
\* 3.10), as reset_caches of the tests does
CacheClear ==
    /\ Len(history) < MaxOps
    /\ memo' = {}
    /\ appMemo' = {}
    /\ call' = "cache_clear"
    /\ history' = Append(history, Event("cache_clear", base, settings, "", ""))
    /\ UNCHANGED <<texts, strMemo, runtime, sys_path0, dirIno, fsPkg, fsMod, sysFinds,
                   pythonpath, settings, base, imports, opts, ret, probes>>

\* classify_base.cache_clear() alone
ClassifyBaseCacheClear ==
    /\ Len(history) < MaxOps
    /\ memo' = {}
    /\ call' = "classify_base.cache_clear"
    /\ history' = Append(history,
                         Event("classify_base.cache_clear", base, settings,
                               "", ""))
    /\ UNCHANGED <<texts, strMemo, runtime, sys_path0, dirIno, fsPkg, fsMod, sysFinds,
                   pythonpath, appMemo, settings, base, imports, opts, ret,
                   probes>>

NextCache ==
    \/ ClassifyBaseAgain
    \/ TouchModule
    \/ TouchDirectory
    \/ CacheClear
    \/ ClassifyBaseCacheClear

SpecCache == InitCache /\ [][NextCache]_vars

(***************************************************************************)
(* _get_app called on its own, beside classify_base: SpecApp               *)
(***************************************************************************)

\* the settings and the directories of one call for the name pkg: the
\* directory tests is missing, a directory of its own, or a second path to
\* the current directory
InitApp ==
    /\ texts = <<>>
    /\ strMemo = {}
    /\ runtime \in Runtimes
    /\ sys_path0 = ScriptDir
    /\ base = s_pkg
    /\ settings \in SettingsChoices
    /\ \E t \in Inodes \cup {NoIno} :
           dirIno = [p \in DirPaths |-> IF p = "." THEN "ino_cwd" ELSE t]
    /\ \E ck \in PkgKinds, cm \in ModKinds, tm \in ModKinds :
           /\ dirIno["tests"] # "ino_tests" => tm = "absent"
           /\ fsPkg = [i \in Inodes |->
                        IF i = "ino_cwd"
                            THEN DirOf(base, ck, cm, dirIno["tests"] # NoIno)
                            ELSE DirOf(base, "absent", tm, FALSE)]
           /\ fsMod = [i \in Inodes |->
                        [NoMod EXCEPT ![base] = IF i = "ino_cwd" THEN cm ELSE tm]]
    /\ sysFinds = DefaultFinds
    /\ pythonpath = <<>>
    /\ memo = {}
    /\ appMemo = {}
    /\ imports = <<>>
    /\ opts = <<>>
    /\ call = "none"
    /\ ret = Returned("")
    /\ probes = <<>>
    /\ history = <<>>

\* _get_app(settings.application_directories) of the 3.10 branch, its
\* lru_cache included
GetApp ==
    /\ call = "none"
    /\ runtime = "py310"
    /\ call' = "_get_app"
    /\ ret' = Returned(_get_app(settings.application_directories))
    /\ appMemo' = appMemo \cup
                      {[dirs |-> settings.application_directories,
                        ret |-> _get_app(settings.application_directories)]}
    /\ probes' = _get_app_probes(appMemo, settings.application_directories)
    /\ UNCHANGED <<history, texts, strMemo, runtime, sys_path0, dirIno, fsPkg, fsMod,
                   sysFinds, pythonpath, memo, settings, base, imports, opts>>

NextApp == GetApp \/ ClassifyBase

SpecApp == InitApp /\ [][NextApp]_vars



(***************************************************************************)
(* Source text and ast.parse                                               *)
(*                                                                         *)
(* A text is a sequence of code points up to 255, and of the letter mu     *)
(* (956) that the names of the nodes hold for the micro sign. ast.parse is *)
(* the tokenizer and the grammar of the interpreter (3.11) for the simple  *)
(* statements written with names, numbers, keywords, operators,            *)
(* parentheses, comments and line continuations. Quotes, brackets, braces, *)
(* colons and other code points above 255 are outside the texts of the     *)
(* model: a text that holds one is read as a text the interpreter rejects. *)
(***************************************************************************)

s_space == <<32>>
s_nl == <<10>>
s_comma == <<44>>
s_comma_space == <<44, 32>>
s_quote == <<39>>
kw_import == <<105, 109, 112, 111, 114, 116>>
kw_from == <<102, 114, 111, 109>>
kw_as == <<97, 115>>
s_as == <<32, 97, 115, 32>>

\* the other keywords and operators the grammar names
kw_or == <<111, 114>>
kw_and == <<97, 110, 100>>
kw_not == <<110, 111, 116>>
kw_in == <<105, 110>>
kw_is == <<105, 115>>
kw_if == <<105, 102>>
kw_else == <<101, 108, 115, 101>>
kw_for == <<102, 111, 114>>
kw_async == <<97, 115, 121, 110, 99>>
kw_await == <<97, 119, 97, 105, 116>>
kw_yield == <<121, 105, 101, 108, 100>>
kw_return == <<114, 101, 116, 117, 114, 110>>
kw_raise == <<114, 97, 105, 115, 101>>
kw_pass == <<112, 97, 115, 115>>
kw_del == <<100, 101, 108>>
kw_assert == <<97, 115, 115, 101, 114, 116>>
kw_break == <<98, 114, 101, 97, 107>>
kw_continue == <<99, 111, 110, 116, 105, 110, 117, 101>>
kw_global == <<103, 108, 111, 98, 97, 108>>
kw_nonlocal == <<110, 111, 110, 108, 111, 99, 97, 108>>
s_lpar == <<40>>
s_rpar == <<41>>
s_star == <<42>>
s_dstar == <<42, 42>>
s_semi == <<59>>
s_eq == <<61>>
s_ellipsis == <<46, 46, 46>>

\* True, False, None, and `...`
Constants ==
    { <<84, 114, 117, 101>>, <<70, 97, 108, 115, 101>>, <<78, 111, 110, 101>>,
      s_ellipsis }

\* == != <= < >= > in
CompareOps ==
    { <<61, 61>>, <<33, 61>>, <<60, 61>>, <<60>>, <<62, 61>>, <<62>>, kw_in }

\* | ^ & << >> + - * / // % @
BinOps ==
    { <<124>>, <<94>>, <<38>>, <<60, 60>>, <<62, 62>>, <<43>>, <<45>>, <<42>>,
      <<47>>, <<47, 47>>, <<37>>, <<64>> }

\* + - ~
UnaryOps == { <<43>>, <<45>>, <<126>> }

\* += -= *= @= /= %= &= |= ^= <<= >>= **= //=
AugAssignOps ==
    { <<43, 61>>, <<45, 61>>, <<42, 61>>, <<64, 61>>, <<47, 61>>, <<37, 61>>,
      <<38, 61>>, <<124, 61>>, <<94, 61>>, <<60, 60, 61>>, <<62, 62, 61>>,
      <<42, 42, 61>>, <<47, 47, 61>> }

\* the operators of three, of two and of one character
Ops3 ==
    { <<42, 42, 61>>, <<47, 47, 61>>, <<62, 62, 61>>, <<60, 60, 61>>,
      s_ellipsis }
Ops2 ==
    { <<42, 42>>, <<47, 47>>, <<62, 62>>, <<60, 60>>, <<60, 61>>, <<62, 61>>,
      <<61, 61>>, <<33, 61>>, <<43, 61>>, <<45, 61>>, <<42, 61>>, <<47, 61>>,
      <<37, 61>>, <<38, 61>>, <<124, 61>>, <<94, 61>>, <<64, 61>>, <<45, 62>>,
      <<60, 62>> }
Ops1 ==
    { <<43>>, <<45>>, <<42>>, <<47>>, <<37>>, <<64>>, <<38>>, <<124>>, <<94>>,
      <<126>>, <<60>>, <<62>>, <<40>>, <<41>>, <<44>>, <<46>>, <<59>>, <<61>> }

\* keyword.kwlist of the interpreter: no NAME token
Keywords ==
    { <<70, 97, 108, 115, 101>>, <<78, 111, 110, 101>>, <<84, 114, 117, 101>>,
      <<97, 110, 100>>, <<97, 115>>, <<97, 115, 115, 101, 114, 116>>,
      <<97, 115, 121, 110, 99>>, <<97, 119, 97, 105, 116>>,
      <<98, 114, 101, 97, 107>>, <<99, 108, 97, 115, 115>>,
      <<99, 111, 110, 116, 105, 110, 117, 101>>, <<100, 101, 102>>,
      <<100, 101, 108>>, <<101, 108, 105, 102>>, <<101, 108, 115, 101>>,
      <<101, 120, 99, 101, 112, 116>>, <<102, 105, 110, 97, 108, 108, 121>>,
      <<102, 111, 114>>, <<102, 114, 111, 109>>,
      <<103, 108, 111, 98, 97, 108>>, <<105, 102>>,
      <<105, 109, 112, 111, 114, 116>>, <<105, 110>>, <<105, 115>>,
      <<108, 97, 109, 98, 100, 97>>,
      <<110, 111, 110, 108, 111, 99, 97, 108>>, <<110, 111, 116>>,
      <<111, 114>>, <<112, 97, 115, 115>>, <<114, 97, 105, 115, 101>>,
      <<114, 101, 116, 117, 114, 110>>, <<116, 114, 121>>,
      <<119, 104, 105, 108, 101>>, <<119, 105, 116, 104>>,
      <<121, 105, 101, 108, 100>> }

\* NEWLINE is the token s_nl, INDENT the token s_space; ERRORTOKEN is what
\* the tokenizer gives for what it cannot read
ERRORTOKEN == <<0>>

\* The characters the tokenizer of the interpreter reads and this one does
\* not: the quotes of a string, brackets, braces and the colon, outside a
\* comment, and the code points above 255 other than the Greek mu, which
\* the normalisation of identifiers gives for the micro sign. The texts of
\* the statements are drawn from the texts without them; for a text with
\* one of them the tokens end with NOTREAD and ast_parse has no answer.
NotReadChars == {34, 39, 58, 91, 93, 123, 125}
NOTREAD == <<1>>

\* the character is one this tokenizer reads
IsRead(c) == c \notin NotReadChars /\ (c =< 255 \/ c = 956)

IsDigit(c) == c >= 48 /\ c =< 57

\* a letter, a digit or `_`
IsNameChar(c) ==
    \/ IsDigit(c)
    \/ c >= 65 /\ c =< 90
    \/ c = 95
    \/ c >= 97 /\ c =< 122

\* the code points from 128 on that start an identifier (XID_Start) and
\* that continue one (XID_Continue)
XID_Start ==
    {170, 181, 186, 956} \cup (192..214) \cup (216..246) \cup (248..255)
XID_Continue == XID_Start \cup {183}

\* is_potential_identifier_char of the tokenizer
is_potential_identifier_char(c) == IsNameChar(c) \/ c >= 128

\* blank, tab or form feed
IsBlank(c) == c = 32 \/ c = 9 \/ c = 12

\* the character at i, 0 behind the end
at(s, i) == IF i >= 1 /\ i =< Len(s) THEN s[i] ELSE 0

\* the first position that holds a newline, from i on
RECURSIVE skip_comment(_, _)
skip_comment(s, i) ==
    IF i > Len(s) \/ s[i] = 10 THEN i ELSE skip_comment(s, i + 1)

\* `\r\n` and `\r` are `\n`
RECURSIVE translate(_, _)
translate(s, i) ==
    IF i > Len(s) THEN <<>>
    ELSE IF s[i] = 13
        THEN s_nl \o translate(s, IF at(s, i + 1) = 10 THEN i + 2 ELSE i + 1)
    ELSE <<s[i]>> \o translate(s, i + 1)

\* translate_newlines of the tokenizer: a file (mode exec) gets a newline at
\* its end unless its last character is one, and gets one behind a last
\* `\r\n`
translate_newlines(s, exec_input) ==
    IF /\ exec_input
       /\ \/ s = <<>>
          \/ s[Len(s)] \notin {10, 13}
          \/ Len(s) >= 2 /\ s[Len(s) - 1] = 13 /\ s[Len(s)] = 10
        THEN translate(s, 1) \o s_nl
        ELSE translate(s, 1)

\* the digits of a literal: of a decimal, hexadecimal, octal or binary
\* number
IsDigitOf(c, kind) ==
    CASE kind = "dec" -> IsDigit(c)
      [] kind = "hex" -> IsDigit(c) \/ (c >= 97 /\ c =< 102) \/ (c >= 65 /\ c =< 70)
      [] kind = "oct" -> c >= 48 /\ c =< 55
      [] OTHER -> c = 48 \/ c = 49

\* a when it is a position, else b
orelse(a, b) == IF a # 0 THEN a ELSE b

\* the first position from p on that holds no digit of the kind
RECURSIVE skip_digits(_, _, _)
skip_digits(s, p, kind) ==
    IF IsDigitOf(at(s, p), kind) THEN skip_digits(s, p + 1, kind) ELSE p

\* lookahead of the tokenizer: the text test is at q and no character of a
\* name is behind it
lookahead(s, q, test) ==
    /\ \A k \in 1..Len(test) : at(s, q + k - 1) = test[k]
    /\ ~is_potential_identifier_char(at(s, q + Len(test)))

\* verify_end_of_number of the tokenizer: the character at p may follow a
\* number when it starts one of the keywords and, else, for, if, in, is,
\* not, or, or is no ASCII character of a name
verify_end_of_number(s, p) ==
    \/ at(s, p) = 97 /\ lookahead(s, p + 1, <<110, 100>>)
    \/ at(s, p) = 101 /\ lookahead(s, p + 1, <<108, 115, 101>>)
    \/ at(s, p) = 102 /\ lookahead(s, p + 1, <<111, 114>>)
    \/ at(s, p) = 105 /\ at(s, p + 1) \in {102, 110, 115}
    \/ at(s, p) = 111 /\ lookahead(s, p + 1, <<114>>)
    \/ at(s, p) = 110 /\ lookahead(s, p + 1, <<111, 116>>)
    \/ ~(at(s, p) < 128 /\ is_potential_identifier_char(at(s, p)))

\* The numbers of the tokenizer. Every operator gives the position behind
\* the number, or 0 where the tokenizer gives an error.

\* p when the number may end in front of p
verified(s, p) == IF verify_end_of_number(s, p) THEN p ELSE 0

\* tok_decimal_tail: a digit is at j; the position behind digit* (_ digit+)*
RECURSIVE decimal_tail(_, _)
RECURSIVE tail_from(_, _)
decimal_tail(s, j) == tail_from(s, skip_digits(s, j + 1, "dec"))

tail_from(s, k) ==
    IF at(s, k) # 95 THEN k
    ELSE IF IsDigit(at(s, k + 1)) THEN decimal_tail(s, k + 1)
    ELSE 0

\* behind 0x, 0o or 0b: (_? digit+)+, and no decimal digit behind the
\* digits of an octal or a binary number
RECURSIVE prefixed(_, _, _)
RECURSIVE prefixed_from(_, _, _)
RECURSIVE prefixed_behind(_, _, _)
prefixed(s, p, kind) ==
    prefixed_from(s, IF at(s, p) = 95 THEN p + 1 ELSE p, kind)

prefixed_from(s, p, kind) ==
    IF IsDigitOf(at(s, p), kind)
        THEN prefixed_behind(s, skip_digits(s, p, kind), kind)
        ELSE 0

prefixed_behind(s, p, kind) ==
    IF at(s, p) = 95 THEN prefixed(s, p, kind)
    ELSE IF kind # "hex" /\ IsDigit(at(s, p)) THEN 0
    ELSE verified(s, p)

\* j or J is at p
imaginary(s, p) == verified(s, p + 1)

\* behind the exponent, or where none is
after_exponent(s, p) ==
    IF p = 0 THEN 0
    ELSE IF at(s, p) \in {106, 74} THEN imaginary(s, p)
    ELSE verified(s, p)

\* e or E is at p: an exponent, or the number ends in front of a keyword
\* that starts with e
exponent(s, p) ==
    IF at(s, p + 1) \in {43, 45}
        THEN IF IsDigit(at(s, p + 2))
                 THEN after_exponent(s, decimal_tail(s, p + 2))
                 ELSE 0
    ELSE IF IsDigit(at(s, p + 1)) THEN after_exponent(s, decimal_tail(s, p + 1))
    ELSE verified(s, p)

\* behind the fraction, or where none is
after_fraction(s, p) ==
    IF p = 0 THEN 0
    ELSE IF at(s, p) \in {101, 69} THEN exponent(s, p)
    ELSE after_exponent(s, p)

\* p is behind the point
fraction(s, p) ==
    IF IsDigit(at(s, p)) THEN after_fraction(s, decimal_tail(s, p))
    ELSE after_fraction(s, p)

\* behind a first 0: (_? 0)*, the position of the first other character
RECURSIVE zeros(_, _)
RECURSIVE zeros_on(_, _)
zeros(s, p) ==
    IF at(s, p) # 95 THEN zeros_on(s, p)
    ELSE IF IsDigit(at(s, p + 1)) THEN zeros_on(s, p + 1)
    ELSE 0

zeros_on(s, p) == IF at(s, p) = 48 THEN zeros(s, p + 1) ELSE p

\* behind the zeros and the digits that follow them: digits other than 0
\* (nonzero) are allowed in front of a point, an exponent or a j only
behind_zeros(s, p, nonzero) ==
    IF p = 0 THEN 0
    ELSE IF at(s, p) = 46 THEN fraction(s, p + 1)
    ELSE IF at(s, p) \in {101, 69} THEN exponent(s, p)
    ELSE IF at(s, p) \in {106, 74} THEN imaginary(s, p)
    ELSE IF nonzero THEN 0
    ELSE verified(s, p)

after_zeros(s, p) ==
    IF p = 0 THEN 0
    ELSE IF IsDigit(at(s, p)) THEN behind_zeros(s, decimal_tail(s, p), TRUE)
    ELSE behind_zeros(s, p, FALSE)

\* behind the digits of a decimal number
decimal_behind(s, p) ==
    IF p = 0 THEN 0
    ELSE IF at(s, p) = 46 THEN fraction(s, p + 1)
    ELSE after_fraction(s, p)

\* the position behind the number that starts at i with a digit, or with a
\* point that has a digit behind it; 0 when the tokenizer gives an error
number_end(s, i) ==
    IF at(s, i) = 46 THEN fraction(s, i + 1)
    ELSE IF at(s, i) # 48 THEN decimal_behind(s, decimal_tail(s, i))
    ELSE IF at(s, i + 1) \in {120, 88} THEN prefixed(s, i + 2, "hex")
    ELSE IF at(s, i + 1) \in {111, 79} THEN prefixed(s, i + 2, "oct")
    ELSE IF at(s, i + 1) \in {98, 66} THEN prefixed(s, i + 2, "bin")
    ELSE after_zeros(s, zeros(s, i + 1))

\* the position behind the identifier that starts at i
RECURSIVE name_end(_, _)
name_end(s, i) ==
    IF is_potential_identifier_char(at(s, i)) THEN name_end(s, i + 1) ELSE i

\* verify_identifier of the tokenizer
verify_identifier(nm) ==
    /\ nm[1] < 128 \/ nm[1] \in XID_Start
    /\ \A k \in 1..Len(nm) : nm[k] < 128 \/ nm[k] \in XID_Continue

\* the operator that starts at i, <<>> when none does
op_at(s, i) ==
    IF i + 2 =< Len(s) /\ SubSeq(s, i, i + 2) \in Ops3 THEN SubSeq(s, i, i + 2)
    ELSE IF i + 1 =< Len(s) /\ SubSeq(s, i, i + 1) \in Ops2
        THEN SubSeq(s, i, i + 1)
    ELSE IF <<s[i]>> \in Ops1 THEN <<s[i]>>
    ELSE <<>>

\* The tokens of the text from position i on. scan reads behind a token of
\* the logical line, depth parentheses being open; line_start reads the
\* indentation of a logical line, col telling whether its column is not 0
\* and cont whether it was not 0 at a line continuation; token reads the
\* token that starts at i. m is 0 for mode exec, 1 for mode single and 2
\* for mode single behind the first NEWLINE, where only blanks, newlines
\* and comments may follow.
RECURSIVE scan(_, _, _, _)
RECURSIVE line_start(_, _, _, _, _)
RECURSIVE token(_, _, _, _)

\* a line continuation at i: a newline follows, and the text does not end
\* behind it
continues(s, i) == at(s, i + 1) = 10 /\ i + 2 =< Len(s)

scan(s, i, depth, m) ==
    IF i > Len(s) THEN (IF depth > 0 THEN <<ERRORTOKEN>> ELSE <<s_nl>>)
    ELSE IF IsBlank(s[i]) THEN scan(s, i + 1, depth, m)
    ELSE IF s[i] = 35 THEN scan(s, skip_comment(s, i), depth, m)
    ELSE IF s[i] = 10
        THEN IF depth > 0 THEN scan(s, i + 1, depth, m)
             ELSE <<s_nl>> \o line_start(s, i + 1, FALSE, FALSE,
                                         IF m >= 1 THEN 2 ELSE 0)
    ELSE IF s[i] = 92
        THEN IF continues(s, i) THEN scan(s, i + 2, depth, m)
             ELSE <<ERRORTOKEN>>
    ELSE token(s, i, depth, m)

line_start(s, i, col, cont, m) ==
    IF i > Len(s) THEN <<>>
    ELSE IF s[i] = 32 \/ s[i] = 9 THEN line_start(s, i + 1, TRUE, cont, m)
    ELSE IF s[i] = 12 THEN line_start(s, i + 1, FALSE, cont, m)
    ELSE IF s[i] = 92
        THEN IF m # 2 /\ continues(s, i)
                 THEN line_start(s, i + 2, col, cont \/ col, m)
                 ELSE <<ERRORTOKEN>>
    ELSE IF s[i] = 35 THEN line_start(s, skip_comment(s, i), col, cont, m)
    ELSE IF s[i] = 10 THEN line_start(s, i + 1, FALSE, FALSE, m)
    ELSE IF col \/ cont THEN <<s_space>> \o token(s, i, 0, m)
    ELSE token(s, i, 0, m)

\* the name that ends in front of j
name_token(s, i, j, depth, m) ==
    IF \E k \in i..(j - 1) : ~IsRead(s[k]) THEN <<NOTREAD>>
    ELSE IF verify_identifier(SubSeq(s, i, j - 1))
        THEN <<SubSeq(s, i, j - 1)>> \o scan(s, j, depth, m)
        ELSE <<ERRORTOKEN>>

\* the number that ends in front of n
number_token(s, i, n, depth, m) ==
    IF n = 0 THEN <<ERRORTOKEN>>
    ELSE <<SubSeq(s, i, n - 1)>> \o scan(s, n, depth, m)

\* the operator op
op_token(s, i, op, depth, m) ==
    IF ~IsRead(s[i]) THEN <<NOTREAD>>
    ELSE IF op = <<>> \/ (op = s_rpar /\ depth = 0) THEN <<ERRORTOKEN>>
    ELSE <<op>> \o scan(s, i + Len(op),
                        IF op = s_lpar THEN depth + 1
                        ELSE IF op = s_rpar THEN depth - 1
                        ELSE depth,
                        m)

token(s, i, depth, m) ==
    IF is_potential_identifier_char(s[i]) /\ ~IsDigit(s[i])
        THEN name_token(s, i, name_end(s, i), depth, m)
    ELSE IF IsDigit(s[i]) \/ (s[i] = 46 /\ IsDigit(at(s, i + 1)))
        THEN number_token(s, i, number_end(s, i), depth, m)
    ELSE op_token(s, i, op_at(s, i), depth, m)

\* the tokens of a text in the mode of ast.parse; a text that holds a NUL
\* is no source
TokensOf(s, mode) ==
    IF \E i \in 1..Len(s) : s[i] = 0 THEN <<ERRORTOKEN>>
    ELSE line_start(translate_newlines(s, mode = "exec"), 1, FALSE, FALSE,
                    IF mode = "single" THEN 1 ELSE 0)

\* the tokens of a file
Tokens(s) == TokensOf(s, "exec")

\* the logical lines of the tokens
RECURSIVE Lines(_, _)
Lines(toks, cur) ==
    IF toks = <<>> THEN (IF cur = <<>> THEN <<>> ELSE <<cur>>)
    ELSE IF Head(toks) = s_nl THEN <<cur>> \o Lines(Tail(toks), <<>>)
    ELSE Lines(Tail(toks), Append(cur, Head(toks)))

(***************************************************************************)
(* The grammar. A rule reads the tokens t of a logical line from position  *)
(* i on and gives the position behind what it has read, 0 when it does not *)
(* match; alternatives are tried in the order of the grammar and the first *)
(* that matches is taken.                                                  *)
(***************************************************************************)

\* the token at i, <<>> behind the end
tok(t, i) == IF i >= 1 /\ i =< Len(t) THEN t[i] ELSE <<>>

\* the token x at i
lit(t, i, x) == IF i # 0 /\ tok(t, i) = x THEN i + 1 ELSE 0

\* a NAME token
IsName(x) ==
    /\ x # <<>>
    /\ is_potential_identifier_char(x[1])
    /\ ~IsDigit(x[1])
    /\ x \notin Keywords

\* a NUMBER token
IsNumber(x) ==
    /\ x # <<>>
    /\ IsDigit(x[1]) \/ (x[1] = 46 /\ Len(x) > 1 /\ IsDigit(x[2]))

\* NAME
NAME(t, i) == IF i # 0 /\ IsName(tok(t, i)) THEN i + 1 ELSE 0

\* j unless the token at j is x
unless(t, j, x) == IF j # 0 /\ tok(t, j) # x THEN j ELSE 0

\* j with the token x behind it when there is one
maybe(t, j, x) == IF j = 0 THEN 0 ELSE orelse(lit(t, j, x), j)

RECURSIVE rule(_, _, _)
RECURSIVE chain_more(_, _, _, _)
RECURSIVE repeat(_, _, _)

\* operand (op operand)*, read as far as it goes
chain_on(operand, op, t, j, k) ==
    IF k = 0 THEN j ELSE chain_more(operand, op, t, k)

operand_behind(operand, t, k) == IF k = 0 THEN 0 ELSE rule(operand, t, k)

chain_more(operand, op, t, j) ==
    chain_on(operand, op, t, j, operand_behind(operand, t, rule(op, t, j)))

chain_from(operand, op, t, j) ==
    IF j = 0 THEN 0 ELSE chain_more(operand, op, t, j)

chain(operand, op, t, i) == chain_from(operand, op, t, rule(operand, t, i))

\* ','.r+
gather(r, t, i) == chain(r, "','", t, i)

\* r*, read as far as it goes, behind j
repeat_on(r, t, j, k) == IF k = 0 THEN j ELSE repeat(r, t, k)

repeat(r, t, j) == IF j = 0 THEN 0 ELSE repeat_on(r, t, j, rule(r, t, j))

\* r behind j
then(r, t, j) == IF j = 0 THEN 0 ELSE rule(r, t, j)

\* star_expressions: ','.star_expression+ [',']
star_expressions(t, i) == maybe(t, gather("star_expression", t, i), s_comma)

\* star_expression: '*' bitwise_or | expression
star_expression(t, i) ==
    IF tok(t, i) = s_star THEN rule("bitwise_or", t, i + 1)
    ELSE rule("expression", t, i)

\* expression: disjunction 'if' disjunction 'else' expression | disjunction
conditional(t, d) ==
    then("expression", t,
         lit(t, then("disjunction", t, lit(t, d, kw_if)), kw_else))

with_conditional(t, d) == IF d = 0 THEN 0 ELSE orelse(conditional(t, d), d)

expression(t, i) == with_conditional(t, rule("disjunction", t, i))

\* inversion: 'not' inversion | comparison
inversion(t, i) ==
    IF tok(t, i) = kw_not THEN rule("inversion", t, i + 1)
    ELSE chain("bitwise_or", "compare_op", t, i)

\* == != <= < >= > 'not' 'in' | 'in' | 'is' 'not' | 'is'
compare_op(t, i) ==
    IF tok(t, i) \in CompareOps THEN i + 1
    ELSE IF tok(t, i) = kw_not THEN lit(t, i + 1, kw_in)
    ELSE IF tok(t, i) = kw_is THEN orelse(lit(t, i + 1, kw_not), i + 1)
    ELSE 0

\* factor: '+' factor | '-' factor | '~' factor | power
\* power: await_primary '**' factor | await_primary
with_power(t, a) ==
    IF a = 0 THEN 0 ELSE orelse(then("factor", t, lit(t, a, s_dstar)), a)

\* await_primary: 'await' primary | primary
await_primary(t, i) ==
    IF tok(t, i) = kw_await THEN rule("primary", t, i + 1)
    ELSE rule("primary", t, i)

factor(t, i) ==
    IF tok(t, i) \in UnaryOps THEN rule("factor", t, i + 1)
    ELSE with_power(t, await_primary(t, i))

\* '(' [arguments] ')'
call_trailer(t, i, a) == lit(t, orelse(a, i + 1), s_rpar)

\* what follows a primary: '.' NAME | genexp | '(' [arguments] ')'
trailer(t, i) ==
    IF tok(t, i) = s_dot THEN NAME(t, i + 1)
    ELSE IF tok(t, i) = s_lpar
        THEN orelse(rule("genexp", t, i),
                    call_trailer(t, i, rule("arguments", t, i + 1)))
    ELSE 0

\* primary: atom and what follows it
primary(t, i) == repeat("trailer", t, rule("atom", t, i))

\* atom: NAME | 'True' | 'False' | 'None' | NUMBER | tuple | group | genexp
\*     | '...'
atom(t, i) ==
    IF IsName(tok(t, i)) \/ tok(t, i) \in Constants \/ IsNumber(tok(t, i))
        THEN i + 1
    ELSE IF tok(t, i) = s_lpar
        THEN orelse(rule("tuple", t, i),
                    orelse(rule("group", t, i), rule("genexp", t, i)))
    ELSE 0

\* tuple: '(' [star_named_expression ',' [star_named_expressions]] ')'
tuple_rest(t, e) ==
    lit(t, orelse(maybe(t, gather("star_expression", t, e), s_comma), e),
        s_rpar)

tuple_from(t, i, e) ==
    IF e = 0 THEN lit(t, i + 1, s_rpar) ELSE tuple_rest(t, e)

tuple(t, i) == tuple_from(t, i, lit(t, star_expression(t, i + 1), s_comma))

\* yield_expr: 'yield' 'from' expression | 'yield' [star_expressions]
yield_expr(t, i) ==
    IF tok(t, i) # kw_yield THEN 0
    ELSE orelse(then("expression", t, lit(t, i + 1, kw_from)),
                orelse(star_expressions(t, i + 1), i + 1))

\* group: '(' (yield_expr | named_expression) ')'
group(t, i) ==
    lit(t, orelse(yield_expr(t, i + 1), rule("expression", t, i + 1)), s_rpar)

\* for_if_clause: ['async'] 'for' star_targets 'in' disjunction
\*                ('if' disjunction)*
if_clause(t, i) == then("disjunction", t, lit(t, i, kw_if))

for_if_clause(t, i) ==
    repeat("if_clause", t,
           then("disjunction", t,
                lit(t,
                    then("star_targets", t,
                         lit(t, IF tok(t, i) = kw_async THEN i + 1 ELSE i,
                             kw_for)),
                    kw_in)))

\* genexp: '(' expression for_if_clauses ')'
genexp(t, i) ==
    lit(t,
        repeat("for_if_clause", t,
               then("for_if_clause", t, rule("expression", t, i + 1))),
        s_rpar)

\* an argument by position: starred_expression | expression !'='
positional(t, i) ==
    IF tok(t, i) = s_star THEN rule("expression", t, i + 1)
    ELSE unless(t, rule("expression", t, i), s_eq)

\* NAME '=' expression
kwarg(t, i) == then("expression", t, lit(t, NAME(t, i), s_eq))

\* kwarg_or_starred: NAME '=' expression | '*' expression
kwarg_or_starred(t, i) ==
    orelse(kwarg(t, i),
           IF tok(t, i) = s_star THEN rule("expression", t, i + 1) ELSE 0)

\* kwarg_or_double_starred: NAME '=' expression | '**' expression
kwarg_or_double_starred(t, i) ==
    orelse(kwarg(t, i),
           IF tok(t, i) = s_dstar THEN rule("expression", t, i + 1) ELSE 0)

\* kwargs: ','.kwarg_or_starred+ ',' ','.kwarg_or_double_starred+
\*       | ','.kwarg_or_starred+ | ','.kwarg_or_double_starred+
kwargs_from(t, i, a) ==
    orelse(then("kwargs_double", t, lit(t, a, s_comma)),
           orelse(a, gather("kwarg_or_double_starred", t, i)))

kwargs(t, i) == kwargs_from(t, i, gather("kwarg_or_starred", t, i))

\* args: ','.positional+ [',' kwargs] | kwargs
args_from(t, i, p) ==
    IF p = 0 THEN kwargs(t, i)
    ELSE orelse(then("kwargs", t, lit(t, p, s_comma)), p)

args(t, i) == args_from(t, i, gather("positional", t, i))

\* arguments: args [','] &')'
closing(t, a) == IF a # 0 /\ tok(t, a) = s_rpar THEN a ELSE 0

arguments(t, i) == closing(t, maybe(t, args(t, i), s_comma))

\* t_lookahead: '(' | '[' | '.'
t_lookahead(t, i) == tok(t, i) \in {s_lpar, <<91>>, s_dot}

\* what follows a t_primary: what follows a primary, a t_lookahead behind it
t_trailer(t, i) ==
    IF trailer(t, i) # 0 /\ t_lookahead(t, trailer(t, i))
        THEN trailer(t, i) ELSE 0

\* t_primary: atom &t_lookahead and what follows it
t_atom(t, i) ==
    IF atom(t, i) # 0 /\ t_lookahead(t, atom(t, i)) THEN atom(t, i) ELSE 0

t_primary(t, i) == repeat("t_trailer", t, t_atom(t, i))

\* t_primary '.' NAME !t_lookahead
no_lookahead(t, p) == IF p # 0 /\ ~t_lookahead(t, p) THEN p ELSE 0

attribute_target(t, i) ==
    no_lookahead(t, NAME(t, lit(t, t_primary(t, i), s_dot)))

\* star_targets: star_target !',' | star_target (',' star_target)* [',']
star_targets_from(t, i, s) ==
    IF s = 0 THEN 0
    ELSE IF tok(t, s) # s_comma THEN s
    ELSE maybe(t, gather("star_target", t, i), s_comma)

star_targets(t, i) == star_targets_from(t, i, rule("star_target", t, i))

\* target_with_star_atom: t_primary '.' NAME !t_lookahead | star_atom
target_with_star_atom(t, i) ==
    orelse(attribute_target(t, i), rule("star_atom", t, i))

\* star_target: '*' (!'*' star_target) | target_with_star_atom
star_target(t, i) ==
    IF tok(t, i) = s_star
        THEN IF tok(t, i + 1) = s_star THEN 0
             ELSE rule("star_target", t, i + 1)
        ELSE target_with_star_atom(t, i)

\* star_targets_tuple_seq: star_target (',' star_target)+ [',']
\*                       | star_target ','
star_targets_tuple_seq(t, i) ==
    IF rule("star_target", t, i) = 0
           \/ tok(t, rule("star_target", t, i)) # s_comma
        THEN 0
        ELSE maybe(t, gather("star_target", t, i), s_comma)

\* star_atom: NAME | '(' target_with_star_atom ')'
\*          | '(' [star_targets_tuple_seq] ')'
star_atom(t, i) ==
    IF IsName(tok(t, i)) THEN i + 1
    ELSE IF tok(t, i) # s_lpar THEN 0
    ELSE orelse(lit(t, target_with_star_atom(t, i + 1), s_rpar),
                lit(t, orelse(star_targets_tuple_seq(t, i + 1), i + 1),
                    s_rpar))

\* single_target: t_primary '.' NAME !t_lookahead | NAME
\*              | '(' single_target ')'
single_target(t, i) ==
    orelse(attribute_target(t, i),
           IF IsName(tok(t, i)) THEN i + 1
           ELSE IF tok(t, i) = s_lpar
               THEN lit(t, rule("single_target", t, i + 1), s_rpar)
           ELSE 0)

\* del_targets: ','.del_target+ [',']
del_targets(t, i) == maybe(t, gather("del_target", t, i), s_comma)

\* del_t_atom: NAME | '(' del_target ')' | '(' [del_targets] ')'
del_t_atom(t, i) ==
    IF IsName(tok(t, i)) THEN i + 1
    ELSE IF tok(t, i) # s_lpar THEN 0
    ELSE orelse(lit(t, rule("del_target", t, i + 1), s_rpar),
                lit(t, orelse(del_targets(t, i + 1), i + 1), s_rpar))

\* del_target: t_primary '.' NAME !t_lookahead | del_t_atom
del_target(t, i) == orelse(attribute_target(t, i), del_t_atom(t, i))

\* star_targets '='
targets_eq(t, i) == lit(t, star_targets(t, i), s_eq)

\* yield_expr | star_expressions
rhs(t, i) == orelse(yield_expr(t, i), star_expressions(t, i))

\* assignment: (star_targets '=')+ (yield_expr | star_expressions) !'='
rhs_behind(t, j) == IF j = 0 THEN 0 ELSE unless(t, rhs(t, j), s_eq)

assign(t, i) == rhs_behind(t, repeat("targets_eq", t, targets_eq(t, i)))

\* assignment: single_target augassign (yield_expr | star_expressions)
augrhs(t, s) ==
    IF s # 0 /\ tok(t, s) \in AugAssignOps THEN rhs(t, s + 1) ELSE 0

augassign(t, i) == augrhs(t, single_target(t, i))

\* dotted_name: NAME ('.' NAME)*
dotted_name(t, i) == chain("NAME", "'.'", t, i)

\* dotted_as_name / import_from_as_name: name ['as' NAME]
with_as(t, j) == IF j = 0 THEN 0 ELSE orelse(NAME(t, lit(t, j, kw_as)), j)

as_name(t, i, dotted) ==
    with_as(t, IF dotted THEN dotted_name(t, i) ELSE NAME(t, i))

\* dotted_as_names / import_from_as_names: ','.as_name+
as_names(t, i, dotted) ==
    gather(IF dotted THEN "dotted_as_name" ELSE "import_from_as_name", t, i)

\* the rules by their names
rule(r, t, i) ==
    CASE r = "','" -> lit(t, i, s_comma)
      [] r = "'.'" -> lit(t, i, s_dot)
      [] r = "'or'" -> lit(t, i, kw_or)
      [] r = "'and'" -> lit(t, i, kw_and)
      [] r = "NAME" -> NAME(t, i)
      [] r = "compare_op" -> compare_op(t, i)
      [] r = "binop" -> IF tok(t, i) \in BinOps THEN i + 1 ELSE 0
      [] r = "star_expression" -> star_expression(t, i)
      [] r = "expression" -> expression(t, i)
      [] r = "disjunction" -> chain("conjunction", "'or'", t, i)
      [] r = "conjunction" -> chain("inversion", "'and'", t, i)
      [] r = "inversion" -> inversion(t, i)
      [] r = "bitwise_or" -> chain("factor", "binop", t, i)
      [] r = "factor" -> factor(t, i)
      [] r = "primary" -> primary(t, i)
      [] r = "trailer" -> trailer(t, i)
      [] r = "atom" -> atom(t, i)
      [] r = "tuple" -> tuple(t, i)
      [] r = "group" -> group(t, i)
      [] r = "genexp" -> genexp(t, i)
      [] r = "if_clause" -> if_clause(t, i)
      [] r = "for_if_clause" -> for_if_clause(t, i)
      [] r = "arguments" -> arguments(t, i)
      [] r = "positional" -> positional(t, i)
      [] r = "kwarg_or_starred" -> kwarg_or_starred(t, i)
      [] r = "kwarg_or_double_starred" -> kwarg_or_double_starred(t, i)
      [] r = "kwargs_double" -> gather("kwarg_or_double_starred", t, i)
      [] r = "kwargs" -> kwargs(t, i)
      [] r = "t_trailer" -> t_trailer(t, i)
      [] r = "star_targets" -> star_targets(t, i)
      [] r = "star_target" -> star_target(t, i)
      [] r = "star_atom" -> star_atom(t, i)
      [] r = "single_target" -> single_target(t, i)
      [] r = "del_target" -> del_target(t, i)
      [] r = "targets_eq" -> targets_eq(t, i)
      [] r = "dotted_as_name" -> as_name(t, i, TRUE)
      [] r = "import_from_as_name" -> as_name(t, i, FALSE)
      [] OTHER -> 0

(***************************************************************************)
(* The statements. A statement is read as [end, node]: the position behind *)
(* it and its ast node, end 0 when the tokens are no statement.            *)
(***************************************************************************)

\* the identifier of an ast node: the NFKC form of the name
nfkc(nm) ==
    [k \in 1..Len(nm) |->
        CASE nm[k] = 170 -> 97
          [] nm[k] = 181 -> 956
          [] nm[k] = 186 -> 111
          [] OTHER -> nm[k]]

\* the text of the tokens from i up to j
RECURSIVE Joint(_, _, _)
Joint(t, i, j) == IF i >= j THEN <<>> ELSE t[i] \o Joint(t, i + 1, j)

\* the ast.alias that starts at i and whose name ends in front of j
alias_from(t, i, j) ==
    alias(nfkc(Joint(t, i, j)),
          IF tok(t, j) = kw_as THEN nfkc(tok(t, j + 1)) ELSE None)

alias_at(t, i, dotted) ==
    alias_from(t, i, IF dotted THEN dotted_name(t, i) ELSE NAME(t, i))

\* the ast.alias list of the names from i up to j
RECURSIVE aliases(_, _, _, _)
aliases(t, i, j, dotted) ==
    IF i >= j THEN <<>>
    ELSE <<alias_at(t, i, dotted)>>
         \o aliases(t, as_name(t, i, dotted) + 1, j, dotted)

\* a statement that is no import, and a line that is no statement
PlainNode(tp) == [type |-> tp, module |-> None, names |-> <<>>, level |-> 0]
ExprNode == PlainNode("Expr")
SyntaxErrorNode == PlainNode("SyntaxError")

Stmt(e, node) == [end |-> e, node |-> node]
NoStmt == Stmt(0, SyntaxErrorNode)

\* the statement of tp that ends at e, when e is a position
PlainStmt(e, tp) == IF e = 0 THEN NoStmt ELSE Stmt(e, PlainNode(tp))

\* import_name: 'import' dotted_as_names
import_named(t, i, e) ==
    IF e = 0 THEN NoStmt
    ELSE Stmt(e, [type |-> "Import", module |-> None,
                  names |-> aliases(t, i + 1, e, TRUE), level |-> 0])

import_name(t, i) == import_named(t, i, as_names(t, i + 1, TRUE))

\* the number of the leading dots from i on: a '.' is one, a '...' three
RECURSIVE LeadingDots(_, _)
LeadingDots(t, i) ==
    IF tok(t, i) = s_dot THEN 1 + LeadingDots(t, i + 1)
    ELSE IF tok(t, i) = s_ellipsis THEN 3 + LeadingDots(t, i + 1)
    ELSE 0

\* the position behind the leading dots
RECURSIVE BehindDots(_, _)
BehindDots(t, i) ==
    IF tok(t, i) \in {s_dot, s_ellipsis} THEN BehindDots(t, i + 1) ELSE i

\* import_from_targets: '(' import_from_as_names [','] ')'
\*                    | import_from_as_names !',' | '*'
\* as [first, last, end]: the names lie from first up to last
Targets(f, l, e) == [first |-> f, last |-> l, end |-> e]

in_parentheses(t, i, n) ==
    IF lit(t, maybe(t, n, s_comma), s_rpar) # 0
        THEN Targets(i + 1, n, lit(t, maybe(t, n, s_comma), s_rpar))
        ELSE Targets(0, 0, 0)

bare_targets(t, i, n) ==
    IF n # 0 /\ tok(t, n) # s_comma THEN Targets(i, n, n)
    ELSE IF tok(t, i) = s_star THEN Targets(i, i, i + 1)
    ELSE Targets(0, 0, 0)

import_from_targets(t, i) ==
    IF tok(t, i) = s_lpar
           /\ in_parentheses(t, i, as_names(t, i + 1, FALSE)).end # 0
        THEN in_parentheses(t, i, as_names(t, i + 1, FALSE))
        ELSE bare_targets(t, i, as_names(t, i, FALSE))

\* the ImportFrom of the module m, the level lv and the targets g
from_node(t, m, lv, g) ==
    IF g.end = 0 THEN NoStmt
    ELSE Stmt(g.end,
              [type |-> "ImportFrom", module |-> m,
               names |-> IF g.first = g.last THEN <<alias(s_star, None)>>
                         ELSE aliases(t, g.first, g.last, FALSE),
               level |-> lv])

\* import_from: 'from' ('.' | '...')* dotted_name 'import' import_from_targets
\*            | 'from' ('.' | '...')+ 'import' import_from_targets
\* j is the position behind the dots, d the one behind the module
from_module(t, j, d, lv) ==
    IF lit(t, d, kw_import) # 0
        THEN from_node(t, nfkc(Joint(t, j, d)), lv,
                       import_from_targets(t, d + 1))
    ELSE IF lv >= 1 /\ tok(t, j) = kw_import
        THEN from_node(t, None, lv, import_from_targets(t, j + 1))
    ELSE NoStmt

import_from(t, i) ==
    from_module(t, BehindDots(t, i + 1), dotted_name(t, BehindDots(t, i + 1)),
                LeadingDots(t, i + 1))

\* the end of a statement: ';' or NEWLINE
at_end(t, j) == j = Len(t) + 1 \/ tok(t, j) = s_semi

\* raise_stmt: 'raise' expression ['from' expression] | 'raise'
raise_from(t, i, e) ==
    IF e = 0 THEN i + 1
    ELSE orelse(then("expression", t, lit(t, e, kw_from)), e)

\* assert_stmt: 'assert' expression [',' expression]
assert_from(t, e) ==
    IF e = 0 THEN 0 ELSE orelse(then("expression", t, lit(t, e, s_comma)), e)

\* del_stmt: 'del' del_targets &(';' | NEWLINE)
del_from(t, d) == IF d # 0 /\ at_end(t, d) THEN d ELSE 0

\* the statements that start with their keyword
keyword_stmt(t, i) ==
    CASE tok(t, i) = kw_return ->
            PlainStmt(orelse(star_expressions(t, i + 1), i + 1), "Return")
      [] tok(t, i) = kw_import -> import_name(t, i)
      [] tok(t, i) = kw_from -> import_from(t, i)
      [] tok(t, i) = kw_raise ->
            PlainStmt(raise_from(t, i, expression(t, i + 1)), "Raise")
      [] tok(t, i) = kw_pass -> PlainStmt(i + 1, "Pass")
      [] tok(t, i) = kw_del ->
            PlainStmt(del_from(t, del_targets(t, i + 1)), "Delete")
      [] tok(t, i) = kw_yield -> PlainStmt(yield_expr(t, i), "Expr")
      [] tok(t, i) = kw_assert ->
            PlainStmt(assert_from(t, expression(t, i + 1)), "Assert")
      [] tok(t, i) = kw_break -> PlainStmt(i + 1, "Break")
      [] tok(t, i) = kw_continue -> PlainStmt(i + 1, "Continue")
      [] tok(t, i) = kw_global -> PlainStmt(gather("NAME", t, i + 1), "Global")
      [] tok(t, i) = kw_nonlocal ->
            PlainStmt(gather("NAME", t, i + 1), "Nonlocal")
      [] OTHER -> NoStmt

\* simple_stmt: assignment | star_expressions | return_stmt | import_stmt
\*            | raise_stmt | 'pass' | del_stmt | yield_stmt | assert_stmt
\*            | 'break' | 'continue' | global_stmt | nonlocal_stmt
stmt_of(t, i, a, g, e) ==
    IF a # 0 THEN PlainStmt(a, "Assign")
    ELSE IF g # 0 THEN PlainStmt(g, "AugAssign")
    ELSE IF e # 0 THEN PlainStmt(e, "Expr")
    ELSE keyword_stmt(t, i)

simple_stmt(t, i) ==
    stmt_of(t, i, assign(t, i), augassign(t, i), star_expressions(t, i))

\* simple_stmts: ';'.simple_stmt+ [';'] NEWLINE, the statements of one
\* logical line; a SyntaxErrorNode for a line the grammar does not accept
RECURSIVE stmts_from(_, _)
stmts_behind(t, r) ==
    IF r.end = 0 THEN <<SyntaxErrorNode>>
    ELSE IF r.end = Len(t) + 1 THEN <<r.node>>
    ELSE IF tok(t, r.end) # s_semi THEN <<SyntaxErrorNode>>
    ELSE IF r.end = Len(t) THEN <<r.node>>
    ELSE <<r.node>> \o stmts_from(t, r.end + 1)

stmts_from(t, i) == stmts_behind(t, simple_stmt(t, i))

simple_stmts(t) == stmts_from(t, 1)

\* the statements of the lines
RECURSIVE Body(_)
Body(lines) ==
    IF lines = <<>> THEN <<>>
    ELSE simple_stmts(Head(lines)) \o Body(Tail(lines))

\* the module of the statements, or SyntaxError: mode 'single' takes one
\* logical line, mode 'exec' any number of them
Parsed(lines, body, mode) ==
    IF \/ \E i \in 1..Len(body) : body[i] = SyntaxErrorNode
       \/ mode = "single" /\ Len(lines) # 1
        THEN [raised |-> TRUE, body |-> <<>>]
        ELSE [raised |-> FALSE, body |-> body]

parse_lines(lines, mode) == Parsed(lines, Body(lines), mode)

\* no module and no SyntaxError: the tokens were not read to their end
NotParsed == [read |-> FALSE]

\* ast.parse has given a module or a SyntaxError
IsParsed(p) == "raised" \in DOMAIN p

\* the parse of the tokens of a text
parse_tokens(toks, mode) ==
    IF toks # <<>> /\ toks[Len(toks)] = NOTREAD THEN NotParsed
    ELSE parse_lines(Lines(toks, <<>>), mode)

\* ast.parse(s, mode=...)
ast_parse(s, mode) == parse_tokens(TokensOf(s, mode), mode)

(***************************************************************************)
(* classify_imports.py: construction, split, rendering, equality           *)
(***************************************************************************)

\* _import_type[type(node)](node) of body[0]: KeyError for a statement that
\* is no import
_import_type(p) ==
    IF ~IsParsed(p) THEN NotParsed
    ELSE IF p.raised THEN Raises
    ELSE IF p.body[1].type \notin {"Import", "ImportFrom"} THEN Raises
    ELSE Returned(p.body[1])

\* import_obj_from_str without its cache
import_obj_from_str(s) == _import_type(ast_parse(s, "single"))

\* _ast_alias_to_s: `name as asname`, or `name`
_ast_alias_to_s(a) ==
    IF a.asname # None /\ a.asname # s_empty THEN a.name \o s_as \o a.asname
    ELSE a.name

\* one statement for each name, in the alphabetical order of the names
split_sorted(obj) ==
    LET ps == SortPairs([i \in 1..Len(obj.names) |->
                            <<<<_ast_alias_to_s(obj.names[i])>>, obj.names[i]>>])
    IN  [i \in 1..Len(ps) |-> [obj EXCEPT !.names = <<ps[i][2]>>]]

\* Import.split / ImportFrom.split: the statement itself, or one statement
\* for each name, of the same type, module and level
stmt_split(obj) ==
    IF ~is_multiple(obj) THEN <<obj>>
    ELSE [i \in 1..Len(obj.names) |-> [obj EXCEPT !.names = <<obj.names[i]>>]]

\* Import.__str__ / ImportFrom.__str__ without the assertion
str_first(obj) ==
    Returned(IF IsImport(obj)
             THEN kw_import \o s_space \o _ast_alias_to_s(obj.names[1]) \o s_nl
             ELSE kw_from \o s_space \o module(obj) \o s_space \o kw_import
                  \o s_space \o _ast_alias_to_s(obj.names[1]) \o s_nl)

\* Import.__str__ / ImportFrom.__str__; the assertion is compiled in
\* (__debug__, no -O)
str(obj) ==
    IF is_multiple(obj) THEN Raises
    ELSE Returned(IF IsImport(obj)
             THEN kw_import \o s_space \o _ast_alias_to_s(obj.names[1]) \o s_nl
             ELSE kw_from \o s_space \o module(obj) \o s_space \o kw_import
                  \o s_space \o _ast_alias_to_s(obj.names[1]) \o s_nl)

\* repr() of a str without quotes in it: quoted, newline, tab and backslash
\* escaped
RECURSIVE EscapedIn(_, _, _)
EscapedIn(s, lo, hi) ==
    IF lo > hi THEN <<>>
    ELSE IF lo = hi
        THEN IF s[lo] = 10 THEN <<92, 110>>
             ELSE IF s[lo] = 9 THEN <<92, 116>>
             ELSE IF s[lo] = 92 THEN <<92, 92>>
             ELSE <<s[lo]>>
    ELSE LET mid == (lo + hi) \div 2
         IN  EscapedIn(s, lo, mid) \o EscapedIn(s, mid + 1, hi)

Escaped(s) == EscapedIn(s, 1, Len(s))

str_repr(s) == s_quote \o Escaped(s) \o s_quote

\* 'import_obj_from_str('
s_ci_repr == <<105, 109, 112, 111, 114, 116, 95, 111, 98, 106, 95, 102, 114,
               111, 109, 95, 115, 116, 114, 40>>
s_close == <<41>>

\* Import.__repr__ / ImportFrom.__repr__
repr(obj) ==
    IF str(obj).raised THEN Raises
    ELSE Returned(s_ci_repr \o str_repr(str(obj).value) \o s_close)

\* hash() of a value: equal values have equal hashes, and the model takes
\* the hashes of different values to differ
hash_of(v) == <<"hash", v>>

\* Import.__hash__ / ImportFrom.__hash__
hash(obj) == hash_of(key(obj))

\* equality of the types alone
eq_type(a, b) == a.type = b.type

\* Import.__eq__ / ImportFrom.__eq__
eq(a, b) == a.type = b.type /\ key(a) = key(b)

(***************************************************************************)
(* aspy/refactor_imports/import_obj.py: construction, split, rendering,    *)
(* equality                                                                *)
(***************************************************************************)

\* the classes and the ast types they wrap
AspyTypes == {"Import", "ImportFrom"}

\* ast_type_to_import_type[type(ast_obj)](ast_obj) of body[0]: IndexError
\* without a statement, KeyError for a statement that is no import
ast_type_to_import_type(p) ==
    IF ~IsParsed(p) THEN NotParsed
    ELSE IF p.raised \/ p.body = <<>> THEN Raises
    ELSE IF p.body[1].type \notin AspyTypes THEN Raises
    ELSE Returned(p.body[1])

\* body[0] of the module, IndexError without a statement, AssertionError
\* when it is not of the type tp
isinstance(p, tp) ==
    IF ~IsParsed(p) THEN NotParsed
    ELSE IF p.raised \/ p.body = <<>> THEN Raises
    ELSE IF p.body[1].type # tp THEN Raises
    ELSE Returned(p.body[1])

\* _from_str without the isinstance check: any import statement
_from_str_any(s, tp) == ast_type_to_import_type(ast_parse(s, "exec"))

\* _from_str(s, tp)
_from_str(s, tp) == isinstance(ast_parse(s, "exec"), tp)

\* import_obj_from_str of import_obj.py
aspy_import_obj_from_str(s) == ast_type_to_import_type(ast_parse(s, "exec"))

\* _from_import_module
_from_import_module(obj) == Dots(obj.level) \o OrEmpty(obj.module)

\* ', '.join(strs)
RECURSIVE comma_join(_)
comma_join(strs) ==
    IF strs = <<>> THEN <<>>
    ELSE IF Len(strs) = 1 THEN strs[1]
    ELSE strs[1] \o s_comma_space \o comma_join(Tail(strs))

\* sorted(_ast_alias_to_s(ast_alias) for ast_alias in ast_aliases)
sorted_displays(ast_aliases) ==
    Undecorate(SortPairs([i \in 1..Len(ast_aliases) |->
        <<<<_ast_alias_to_s(ast_aliases[i])>>, _ast_alias_to_s(ast_aliases[i])>>]))

\* _format_import_import
_format_import_import(ast_aliases) ==
    kw_import \o s_space \o comma_join(sorted_displays(ast_aliases)) \o s_nl

\* _format_from_import
_format_from_import(m, ast_aliases) ==
    kw_from \o s_space \o m \o s_space \o kw_import \o s_space
        \o comma_join(sorted_displays(ast_aliases)) \o s_nl

\* the text with the names in the order of the source
to_text_unsorted(obj) ==
    LET shown == [i \in 1..Len(obj.names) |-> _ast_alias_to_s(obj.names[i])]
    IN  IF IsImport(obj)
        THEN kw_import \o s_space \o comma_join(shown) \o s_nl
        ELSE kw_from \o s_space \o _from_import_module(obj) \o s_space
                 \o kw_import \o s_space \o comma_join(shown) \o s_nl

\* ImportImport.to_text / FromImport.to_text
to_text(obj) ==
    IF IsImport(obj) THEN _format_import_import(obj.names)
    ELSE _format_from_import(_from_import_module(obj), obj.names)

\* 'ImportImport.from_str(' and 'FromImport.from_str('
s_ii_repr == <<73, 109, 112, 111, 114, 116, 73, 109, 112, 111, 114, 116, 46,
               102, 114, 111, 109, 95, 115, 116, 114, 40>>
s_fi_repr == <<70, 114, 111, 109, 73, 109, 112, 111, 114, 116, 46,
               102, 114, 111, 109, 95, 115, 116, 114, 40>>

\* ImportImport.__repr__ / FromImport.__repr__
aspy_repr(obj) ==
    (IF IsImport(obj) THEN s_ii_repr ELSE s_fi_repr)
        \o str_repr(to_text(obj)) \o s_close

\* ImportImport.__hash__ / FromImport.__hash__
aspy_hash(obj) == hash_of(aspy_repr(obj))

\* a == b for two import objects: __eq__ of both sides gives NotImplemented
\* for an object of another class, and == falls back to identity, False for
\* two objects
aspy_eq(a, b) ==
    IF a.type # b.type THEN FALSE
    ELSE import_statement(a) = import_statement(b)

\* the i-th name of a statement rendered alone and parsed again by from_str
\* of the class
split_one(obj, i) ==
    _from_str(IF IsImport(obj) THEN _format_import_import(<<obj.names[i]>>)
              ELSE _format_from_import(_from_import_module(obj),
                                       <<obj.names[i]>>),
              obj.type)

\* the list of the values, or the exception of one of them
AllOf(rs) ==
    IF \E i \in 1..Len(rs) : rs[i].raised THEN Raises
    ELSE Returned([i \in 1..Len(rs) |-> rs[i].value])

\* ImportImport.split_imports / FromImport.split_imports
split_imports(obj) ==
    AllOf([i \in 1..Len(obj.names) |-> split_one(obj, i)])

(***************************************************************************)
(* The statement objects: SpecObj                                          *)
(***************************************************************************)

\* the most names of one statement
MaxNames == 2

\* the most leading dots of a from-import
MaxLevel == 2

\* the most blanks of one run of whitespace
MaxGap == 2

\* n blanks
RECURSIVE Blanks(_)
Blanks(n) == IF n = 0 THEN <<>> ELSE s_space \o Blanks(n - 1)

\* a dotted name written with the whitespace d around every dot
RECURSIVE WriteDotted(_, _)
WriteDotted(name, d) ==
    IF name = <<>> THEN <<>>
    ELSE (IF Head(name) = 46 THEN d \o s_dot \o d ELSE <<Head(name)>>)
             \o WriteDotted(Tail(name), d)

\* a name and its alias written with the whitespace g between the words
WriteAlias(a, g, d) ==
    WriteDotted(a.name, d)
        \o (IF a.asname = None THEN <<>> ELSE g \o kw_as \o g \o a.asname)

\* the names written with d in front of every comma and g behind it
RECURSIVE WriteNames(_, _, _)
WriteNames(nms, g, d) ==
    IF Len(nms) = 1 THEN WriteAlias(nms[1], g, d)
    ELSE WriteAlias(nms[1], g, d) \o d \o s_comma \o g
             \o WriteNames(Tail(nms), g, d)

\* n dots written with d behind every dot
RECURSIVE WriteDots(_, _)
WriteDots(n, d) == IF n = 0 THEN <<>> ELSE s_dot \o d \o WriteDots(n - 1, d)

\* a source text of the statement: g between the words, d around the dots
\* and in front of the commas, t at the end
Unparse(node, g, d, t) ==
    IF IsImport(node)
        THEN kw_import \o g \o WriteNames(node.names, g, d) \o t
        ELSE kw_from \o g \o WriteDots(node.level, d)
                 \o WriteDotted(OrEmpty(node.module), d) \o g \o kw_import \o g
                 \o WriteNames(node.names, g, d) \o t

\* the canonical layout: one blank between the words, none at the dots
Canonical(node) == Unparse(node, s_space, <<>>, <<>>)

s_B == <<66>>
s_A == <<65>>
s_a_b == <<97, 46, 98>>

PlainAliases ==
    {alias(s_a, None), alias(s_B, None), alias(s_a_b, None), alias(s_a, s_b)}

FromAliases == {alias(s_a, None), alias(s_B, None), alias(s_a, s_b)}

FromModules == {s_a, s_a_b}

\* the non-empty tuples over S of length at most n
NamesUpTo(S, n) == TuplesUpTo(S, n) \ {<<>>}

\* the statements of the texts
NodeUniverse ==
    {AstImport(nms) : nms \in NamesUpTo(PlainAliases, MaxNames)}
    \cup {AstImportFrom(m, nms, lv) :
            m \in FromModules, nms \in NamesUpTo(FromAliases, MaxNames),
            lv \in 0..MaxLevel}
    \cup {AstImportFrom(None, nms, lv) :
            nms \in NamesUpTo(FromAliases, MaxNames), lv \in 1..MaxLevel}

Gaps == {Blanks(n) : n \in 1..MaxGap}
DotGaps == {<<>>, s_space}
Ends == {<<>>, <<32, 10>>}

\* the texts of import statements
ValidTexts ==
    {Unparse(n, g, d, t) : n \in NodeUniverse, g \in Gaps, d \in DotGaps,
                           t \in Ends}

\* texts that are no single import statement:
\*   ``, `a`, `import`, `import a,`, ` import a`, `from a import`,
\*   `import a as`, `from a`, `from import a`, `import as`, `import .a`,
\*   `from a import b.a`
OtherTexts ==
    { <<>>,
      s_a,
      kw_import,
      kw_import \o s_space \o s_a \o s_comma,
      s_space \o kw_import \o s_space \o s_a,
      kw_from \o s_space \o s_a \o s_space \o kw_import,
      kw_import \o s_space \o s_a \o s_space \o kw_as,
      kw_from \o s_space \o s_a,
      kw_from \o s_space \o kw_import \o s_space \o s_a,
      kw_import \o s_space \o kw_as,
      kw_import \o s_space \o s_dot \o s_a,
      kw_from \o s_space \o s_a \o s_space \o kw_import \o s_space \o s_b
          \o s_dot \o s_a }

\* plain imports in other layouts: with a comment, a line continuation, a
\* carriage return, a form feed, a tab, an empty line in front, letters
\* that are not ASCII, and a `;` at the end
PlainLayouts ==
    { \* `import a # c`
      <<105, 109, 112, 111, 114, 116, 32, 97, 32, 35, 32, 99>>,
      \* `import \\\na`
      <<105, 109, 112, 111, 114, 116, 32, 92, 10, 97>>,
      \* `import a\r\n`
      <<105, 109, 112, 111, 114, 116, 32, 97, 13, 10>>,
      \* `import a\f`
      <<105, 109, 112, 111, 114, 116, 32, 97, 12>>,
      \* `import\ta`
      <<105, 109, 112, 111, 114, 116, 9, 97>>,
      \* `\nimport a.b`
      <<10, 105, 109, 112, 111, 114, 116, 32, 97, 46, 98>>,
      \* `import \xe9`
      <<105, 109, 112, 111, 114, 116, 32, 233>>,
      \* `import \xc9 as a`
      <<105, 109, 112, 111, 114, 116, 32, 201, 32, 97, 115, 32, 97>>,
      \* `import \xaa`
      <<105, 109, 112, 111, 114, 116, 32, 170>>,
      \* `import \xb5`
      <<105, 109, 112, 111, 114, 116, 32, 181>>,
      \* `import a;`
      <<105, 109, 112, 111, 114, 116, 32, 97, 59>>,
      \* `import b, a # c`
      <<105, 109, 112, 111, 114, 116, 32, 98, 44, 32, 97, 32, 35, 32, 99>> }

\* from-imports in other layouts: of `*`, with parentheses, with three and
\* four dots in a row, with a comment, and with letters that are not ASCII
FromLayouts ==
    { \* `from a import *`
      <<102, 114, 111, 109, 32, 97, 32, 105, 109, 112, 111, 114, 116, 32,
         42>>,
      \* `from . import *`
      <<102, 114, 111, 109, 32, 46, 32, 105, 109, 112, 111, 114, 116, 32,
         42>>,
      \* `from a import (b)`
      <<102, 114, 111, 109, 32, 97, 32, 105, 109, 112, 111, 114, 116, 32, 40,
         98, 41>>,
      \* `from a import ( b )`
      <<102, 114, 111, 109, 32, 97, 32, 105, 109, 112, 111, 114, 116, 32, 40,
         32, 98, 32, 41>>,
      \* `from a import (b as a,)`
      <<102, 114, 111, 109, 32, 97, 32, 105, 109, 112, 111, 114, 116, 32, 40,
         98, 32, 97, 115, 32, 97, 44, 41>>,
      \* `from .a import (B,\n a)`
      <<102, 114, 111, 109, 32, 46, 97, 32, 105, 109, 112, 111, 114, 116, 32,
         40, 66, 44, 10, 32, 97, 41>>,
      \* `from ... import a`
      <<102, 114, 111, 109, 32, 46, 46, 46, 32, 105, 109, 112, 111, 114, 116,
         32, 97>>,
      \* `from ....a import b`
      <<102, 114, 111, 109, 32, 46, 46, 46, 46, 97, 32, 105, 109, 112, 111,
         114, 116, 32, 98>>,
      \* `from a import b # c`
      <<102, 114, 111, 109, 32, 97, 32, 105, 109, 112, 111, 114, 116, 32, 98,
         32, 35, 32, 99>>,
      \* `from \xe9 import \xb5\r\n`
      <<102, 114, 111, 109, 32, 233, 32, 105, 109, 112, 111, 114, 116, 32,
         181, 13, 10>>,
      \* `from a import b, a ;`
      <<102, 114, 111, 109, 32, 97, 32, 105, 109, 112, 111, 114, 116, 32, 98,
         44, 32, 97, 32, 59>> }

\* texts of an import and a statement behind it, in one line or in two
SeveralStatements ==
    { \* `import a; import b`
      <<105, 109, 112, 111, 114, 116, 32, 97, 59, 32, 105, 109, 112, 111,
         114, 116, 32, 98>>,
      \* `import a\npass`
      <<105, 109, 112, 111, 114, 116, 32, 97, 10, 112, 97, 115, 115>>,
      \* `import a\n1`
      <<105, 109, 112, 111, 114, 116, 32, 97, 10, 49>>,
      \* `import a\na, b`
      <<105, 109, 112, 111, 114, 116, 32, 97, 10, 97, 44, 32, 98>>,
      \* `from a import b\ndel a`
      <<102, 114, 111, 109, 32, 97, 32, 105, 109, 112, 111, 114, 116, 32, 98,
         10, 100, 101, 108, 32, 97>>,
      \* `from a import a; pass`
      <<102, 114, 111, 109, 32, 97, 32, 105, 109, 112, 111, 114, 116, 32, 97,
         59, 32, 112, 97, 115, 115>> }

\* texts of statements that are no import, of texts that start with one,
\* and of texts that are no statement
OtherStatements ==
    { \* `pass`
      <<112, 97, 115, 115>>,
      \* `1`
      <<49>>,
      \* `a, b`
      <<97, 44, 32, 98>>,
      \* `a ,`
      <<97, 32, 44>>,
      \* `not a`
      <<110, 111, 116, 32, 97>>,
      \* `del a`
      <<100, 101, 108, 32, 97>>,
      \* `x = 1`
      <<120, 32, 61, 32, 49>>,
      \* `pass\nimport a`
      <<112, 97, 115, 115, 10, 105, 109, 112, 111, 114, 116, 32, 97>>,
      \* `x = 1; import a`
      <<120, 32, 61, 32, 49, 59, 32, 105, 109, 112, 111, 114, 116, 32, 97>>,
      \* `import *`
      <<105, 109, 112, 111, 114, 116, 32, 42>>,
      \* `import (a)`
      <<105, 109, 112, 111, 114, 116, 32, 40, 97, 41>>,
      \* `from a import b, *`
      <<102, 114, 111, 109, 32, 97, 32, 105, 109, 112, 111, 114, 116, 32, 98,
         44, 32, 42>>,
      \* `from a import (b`
      <<102, 114, 111, 109, 32, 97, 32, 105, 109, 112, 111, 114, 116, 32, 40,
         98>>,
      \* `import a \\`
      <<105, 109, 112, 111, 114, 116, 32, 97, 32, 92>>,
      \* `import a\n b`
      <<105, 109, 112, 111, 114, 116, 32, 97, 10, 32, 98>>,
      \* `import 1a`
      <<105, 109, 112, 111, 114, 116, 32, 49, 97>>,
      \* `import ×`
      <<105, 109, 112, 111, 114, 116, 32, 215>>,
      \* `import a.`
      <<105, 109, 112, 111, 114, 116, 32, 97, 46>>,
      \* `# c`
      <<35, 32, 99>> }

\* a text of two statements, `import a` and `import b` on two lines
TwoStatements ==
    kw_import \o s_space \o s_a \o s_nl \o kw_import \o s_space \o s_b

\* the statements a statement is compared with:
\*   import a / import A / import a as b / import a, b / import a.b
\*   from a import b / from a import B / from A import b /
\*   from a import b as a / from .a import b / from a import b, a
Others ==
    { AstImport(<<alias(s_a, None)>>),
      AstImport(<<alias(s_A, None)>>),
      AstImport(<<alias(s_a, s_b)>>),
      AstImport(<<alias(s_a, None), alias(s_b, None)>>),
      AstImport(<<alias(s_a_b, None)>>),
      AstImportFrom(s_a, <<alias(s_b, None)>>, 0),
      AstImportFrom(s_a, <<alias(s_B, None)>>, 0),
      AstImportFrom(s_A, <<alias(s_b, None)>>, 0),
      AstImportFrom(s_a, <<alias(s_b, s_a)>>, 0),
      AstImportFrom(s_a, <<alias(s_b, None)>>, 1),
      AstImportFrom(s_a, <<alias(s_b, None), alias(s_a, None)>>, 0) }

\* one text, or two texts to construct and compare
TextChoices ==
    {<<t>> : t \in ValidTexts \cup PlainLayouts \cup FromLayouts
                       \cup OtherTexts \cup OtherStatements
                       \cup SeveralStatements \cup {TwoStatements}}
    \cup {<<Canonical(n), Canonical(n)>> : n \in NodeUniverse}
    \cup {<<Canonical(n), Canonical(o)>> : n \in NodeUniverse, o \in Others}

InitObj ==
    /\ texts \in TextChoices
    /\ strMemo = {}
    /\ runtime = "py310"
    /\ sys_path0 = ScriptDir
    /\ base = s_empty
    /\ settings = DefaultSettings
    /\ dirIno = [p \in DirPaths |-> IF p = "." THEN "ino_cwd" ELSE NoIno]
    /\ fsPkg = [i \in Inodes |-> NoPkg]
    /\ fsMod = [i \in Inodes |-> NoMod]
    /\ sysFinds = DefaultFinds
    /\ pythonpath = <<>>
    /\ memo = {}
    /\ appMemo = {}
    /\ imports = <<>>
    /\ opts = <<>>
    /\ call = "none"
    /\ ret = Returned(<<>>)
    /\ probes = <<>>
    /\ history = <<>>

\* import_obj_from_str behind its lru_cache: the object of an earlier call
\* with the text, or a new one
import_obj_from_str_cached(sm, s) ==
    IF \E e \in sm : e.s = s
        THEN Returned((CHOOSE e \in sm : e.s = s).obj)
        ELSE import_obj_from_str(s)

\* the object in front of the objects constructed behind it
Prepend(obj, more) ==
    IF more.raised THEN more
    ELSE [more EXCEPT !.objs = <<obj>> \o more.objs]

\* the texts constructed one after the other: the objects, the cache, and
\* whether a construction raised. A call that raises caches nothing.
\* ConstructRest goes on behind the result r of the first text.
RECURSIVE ConstructAll(_, _)
RECURSIVE ConstructRest(_, _, _)
ConstructRest(r, sm, ts) ==
    IF r.raised THEN [raised |-> TRUE, objs |-> <<>>, sm |-> sm]
    ELSE Prepend(r.value,
                 ConstructAll(sm \cup {[s |-> Head(ts), obj |-> r.value]},
                              Tail(ts)))

ConstructAll(sm, ts) ==
    IF ts = <<>> THEN [raised |-> FALSE, objs |-> <<>>, sm |-> sm]
    ELSE ConstructRest(import_obj_from_str_cached(sm, Head(ts)), sm, ts)

\* the object of r in front of the objects of more, or an exception
Both(r, more) ==
    IF r.raised \/ more.raised THEN [raised |-> TRUE, objs |-> <<>>]
    ELSE [more EXCEPT !.objs = <<r.value>> \o more.objs]

\* the constructor of import_obj.py named by tp on every text
RECURSIVE AspyConstructAll(_, _)
AspyConstructAll(tp, ts) ==
    IF ts = <<>> THEN [raised |-> FALSE, objs |-> <<>>]
    ELSE Both(IF tp = "any" THEN aspy_import_obj_from_str(Head(ts))
              ELSE _from_str(Head(ts), tp),
              AspyConstructAll(tp, Tail(ts)))

\* the objects of r are the statements at hand and the value returned
Constructs(r) ==
    /\ imports' = r.objs
    /\ ret' = IF r.raised THEN Raises ELSE Returned(r.objs)

\* the same, and the cache of r is the cache
ConstructsCached(r) ==
    /\ Constructs(r)
    /\ strMemo' = r.sm

Fixed == <<texts, runtime, sys_path0, dirIno, fsPkg, fsMod, sysFinds, pythonpath, memo,
           appMemo, settings, base, probes, history>>

\* import_obj_from_str(s) of classify_imports.py for every text
FromStr ==
    /\ call = "none"
    /\ call' = "import_obj_from_str"
    /\ ConstructsCached(ConstructAll(strMemo, texts))
    /\ UNCHANGED <<Fixed, opts>>

\* ImportImport.from_str(s), FromImport.from_str(s) or import_obj_from_str(s)
\* of import_obj.py for one text, import_obj_from_str(s) for each of two
AspyFromStr ==
    /\ call = "none"
    /\ call' = "from_str"
    /\ \E tp \in IF Len(texts) = 1 THEN AspyTypes \cup {"any"} ELSE {"any"} :
           /\ opts' = <<tp>>
           /\ Constructs(AspyConstructAll(tp, texts))
    /\ UNCHANGED <<Fixed, strMemo>>

\* obj.split()
Split ==
    /\ call = "import_obj_from_str" /\ Len(imports) = 1
    /\ call' = "split"
    /\ ret' = Returned(stmt_split(imports[1]))
    /\ UNCHANGED <<Fixed, strMemo, imports, opts>>

\* str(obj)
Str ==
    /\ call = "import_obj_from_str" /\ Len(imports) = 1
    /\ call' = "str"
    /\ ret' = str(imports[1])
    /\ UNCHANGED <<Fixed, strMemo, imports, opts>>

\* repr(obj)
Repr ==
    /\ call = "import_obj_from_str" /\ Len(imports) = 1
    /\ call' = "repr"
    /\ ret' = repr(imports[1])
    /\ UNCHANGED <<Fixed, strMemo, imports, opts>>

\* a == b, hash(a) and hash(b)
Eq ==
    /\ call = "import_obj_from_str" /\ Len(imports) = 2
    /\ call' = "eq"
    /\ ret' = Returned([eq |-> eq(imports[1], imports[2]),
                        hashes |-> <<hash(imports[1]), hash(imports[2])>>])
    /\ UNCHANGED <<Fixed, strMemo, imports, opts>>

\* obj.split_imports()
SplitImports ==
    /\ call = "from_str" /\ Len(imports) = 1
    /\ call' = "split_imports"
    /\ ret' = split_imports(imports[1])
    /\ UNCHANGED <<Fixed, strMemo, imports, opts>>

\* obj.to_text()
ToText ==
    /\ call = "from_str" /\ Len(imports) = 1
    /\ call' = "to_text"
    /\ ret' = Returned(to_text(imports[1]))
    /\ UNCHANGED <<Fixed, strMemo, imports, opts>>

\* a == b, hash(a) and hash(b) of two objects of import_obj.py
AspyEq ==
    /\ call = "from_str" /\ Len(imports) = 2
    /\ call' = "aspy_eq"
    /\ ret' = Returned([eq |-> aspy_eq(imports[1], imports[2]),
                        hashes |-> <<aspy_hash(imports[1]),
                                     aspy_hash(imports[2])>>])
    /\ UNCHANGED <<Fixed, strMemo, imports, opts>>

NextObj ==
    \/ FromStr
    \/ AspyFromStr
    \/ Split
    \/ Str
    \/ Repr
    \/ Eq
    \/ SplitImports
    \/ ToText
    \/ AspyEq

SpecObj == InitObj /\ [][NextObj]_vars

(***************************************************************************)
(* Claims about sort (SpecSort)                                            *)
(***************************************************************************)

\* the place of a class in FUTURE, BUILTIN, THIRD_PARTY, APPLICATION
ClassRank(tp) ==
    CASE tp = "FUTURE" -> 1
      [] tp = "BUILTIN" -> 2
      [] tp = "THIRD_PARTY" -> 3
      [] tp = "APPLICATION" -> 4

\* the class sort is to give a statement: the class of the first dotted
\* segment of its module under the settings of the call, a plain
\* `import __future__` in BUILTIN
ExpectedClass(obj) ==
    LET text == IF obj.type = "Import" THEN obj.names[1].name
                ELSE Dots(obj.level) \o (IF obj.module = None THEN <<>> ELSE obj.module)
        first == partition0(text)
    IN  IF obj.type = "Import" /\ first = s_future THEN "BUILTIN"
        ELSE classify_base(first, settings, "keyword")

\* the class classify_import gives the module of a statement
AspyClass(obj) ==
    classify_import(module(obj), settings.application_directories)

SortReturned == call = "sort" /\ ~ret.raised

AspySortReturned == call = "aspy_sort" /\ ~ret.raised

\* the statements of the groups, one after the other
RECURSIVE Flatten(_)
Flatten(groups) ==
    IF groups = <<>> THEN <<>> ELSE Head(groups) \o Flatten(Tail(groups))

\* how often x occurs in the sequence xs
Count(x, xs) == Cardinality({i \in 1..Len(xs) : xs[i] = x})

\* C1: every group sort returns is non-empty, all its statements have one
\* class, and the classes of the groups strictly increase in the order
\* FUTURE, BUILTIN, THIRD_PARTY, APPLICATION; for classify_imports.sort and for
\* the aspy sort with separate=True.
C1_GroupsInCategoryOrder ==
    /\ SortReturned =>
         LET g == ret.value
         IN  /\ \A i \in 1..Len(g) :
                   /\ g[i] # <<>>
                   /\ \A j \in 1..Len(g[i]) :
                          ExpectedClass(g[i][j]) = ExpectedClass(g[i][1])
             /\ \A i \in 1..Len(g) - 1 :
                   ClassRank(ExpectedClass(g[i][1]))
                       < ClassRank(ExpectedClass(g[i + 1][1]))
    /\ (AspySortReturned /\ opts[1]) =>
         LET g == ret.value
         IN  /\ \A i \in 1..Len(g) :
                   /\ g[i] # <<>>
                   /\ \A j \in 1..Len(g[i]) : AspyClass(g[i][j]) = AspyClass(g[i][1])
             /\ \A i \in 1..Len(g) - 1 :
                   ClassRank(AspyClass(g[i][1])) < ClassRank(AspyClass(g[i + 1][1]))

\* sort has returned a FUTURE group followed at once by an APPLICATION
\* group: the two classes in between have no group
C1_Witness ==
    /\ SortReturned
    /\ Len(imports) = 3
    /\ Len(ret.value) = 2
    /\ ExpectedClass(ret.value[1][1]) = "FUTURE"
    /\ ExpectedClass(ret.value[2][1]) = "APPLICATION"

\* C2: sort partitions its input: each statement occurs in the output as
\* often as in the input, two statements share a group exactly when they
\* have the same class, and that class is the class of the first dotted
\* segment of the module under the settings of the call (`import os.path`
\* by `os`, a relative from-import APPLICATION), but for a plain
\* `import __future__`, which is with the BUILTIN statements.
C2_SortPartitionsInput ==
    SortReturned =>
        LET g == ret.value
            out == Flatten(g)
        IN  /\ Len(out) = Len(imports)
            /\ \A x \in StatementUniverse : Count(x, out) = Count(x, imports)
            /\ \A i \in 1..Len(g), k \in 1..Len(g) :
                   \A j \in 1..Len(g[i]), l \in 1..Len(g[k]) :
                       (i = k) <=> (ExpectedClass(g[i][j]) = ExpectedClass(g[k][l]))
            /\ \A i \in 1..Len(imports) :
                   LET obj == imports[i]
                   IN  /\ (obj.type = "ImportFrom" /\ obj.level > 0)
                              => ExpectedClass(obj) = "APPLICATION"
                       /\ (obj.type = "Import" /\ obj.names[1].name = s_os_path)
                              => ExpectedClass(obj) = classify_base(s_os, settings, "keyword")
                       /\ (obj.type = "Import" /\ obj.names[1].name = s_future)
                              => \E n \in 1..Len(g) :
                                     /\ \E j \in 1..Len(g[n]) : g[n][j] = obj
                                     /\ \A j \in 1..Len(g[n]) :
                                            ExpectedClass(g[n][j]) = "BUILTIN"

\* sort has returned for a collection with a statement twice, a relative
\* from-import and a plain `import __future__` beside `import os.path`
C2_Witness ==
    /\ SortReturned
    /\ Len(imports) = 3
    /\ \E i \in 1..3, j \in 1..3 : i # j /\ imports[i] = imports[j]
    /\ \E i \in 1..3 : imports[i].level > 0
    /\ Len(ret.value) = 2
    /\ Len(ret.value[2]) = 2

\* the fields a statement is ordered by: (module, alias) or
\* (module, symbol, alias), an alias there is none of being ''
OrderFields(obj) ==
    LET a == IF obj.names[1].asname = None THEN <<>> ELSE obj.names[1].asname
    IN  IF obj.type = "Import" THEN <<obj.names[1].name, a>>
        ELSE <<Dots(obj.level) \o (IF obj.module = None THEN <<>> ELSE obj.module),
               obj.names[1].name, a>>

FoldedFields(obj) ==
    [i \in 1..Len(OrderFields(obj)) |->
        [j \in 1..Len(OrderFields(obj)[i]) |->
            IF OrderFields(obj)[i][j] \in 65..90
                THEN OrderFields(obj)[i][j] + 32 ELSE OrderFields(obj)[i][j]]]

\* x may stand before y by the fields alone: the case-folded fields decide,
\* the fields as written break a tie
FieldsNotAfter(x, y) ==
    \/ TupleLt(FoldedFields(x), FoldedFields(y))
    \/ /\ FoldedFields(x) = FoldedFields(y)
       /\ ~TupleLt(OrderFields(y), OrderFields(x))

\* x may stand before y when plain imports go before from-imports
NotAfter(x, y) ==
    \/ x.type = "Import" /\ y.type = "ImportFrom"
    \/ x.type = y.type /\ FieldsNotAfter(x, y)

\* the fields alone, the folded ones in front of the written ones
NotAfterByFields(x, y) ==
    ~TupleLt(FoldedFields(y) \o OrderFields(y), FoldedFields(x) \o OrderFields(x))

\* C3: in every group sort returns each statement may stand before the
\* next: plain imports before from-imports, then the case-folded fields,
\* then the fields as written; the aspy sort with import_before_from=False
\* orders by the fields alone.
C3_GroupsSortedByKey ==
    /\ SortReturned =>
         \A i \in 1..Len(ret.value) :
             \A j \in 1..Len(ret.value[i]) - 1 :
                 NotAfter(ret.value[i][j], ret.value[i][j + 1])
    /\ AspySortReturned =>
         \A i \in 1..Len(ret.value) :
             \A j \in 1..Len(ret.value[i]) - 1 :
                 IF opts[2] THEN NotAfter(ret.value[i][j], ret.value[i][j + 1])
                 ELSE NotAfterByFields(ret.value[i][j], ret.value[i][j + 1])

\* sort has returned one group of `import lib as a`, `import Pkg`,
\* `from pkg import b, a` in this order from another order: lib is before
\* Pkg by the folded names only, the from-import is last
C3_Witness ==
    /\ SortReturned
    /\ Len(ret.value) = 1
    /\ ret.value[1] = << AstImport(<<alias(s_lib, s_a)>>),
                         AstImport(<<alias(s_Pkg, None)>>),
                         AstImportFrom(s_pkg, <<alias(s_b, None), alias(s_a, None)>>, 0) >>
    /\ imports # ret.value[1]

\* C4: a sort call given `from __future__ import a` and `import __future__`
\* returns the from-import in a first group of from-imports of __future__
\* and the plain import in a later group; for classify_imports.sort and for
\* the aspy sort.
C4_FutureImportRebucketed ==
    LET fromFuture == AstImportFrom(s_future, <<alias(s_a, None)>>, 0)
        plainFuture == AstImport(<<alias(s_future, None)>>)
    IN  (/\ call \in {"sort", "aspy_sort"}
         /\ \E i \in 1..Len(imports) : imports[i] = fromFuture
         /\ \E i \in 1..Len(imports) : imports[i] = plainFuture
         /\ call = "aspy_sort" => opts[1])
        => /\ ~ret.raised
           /\ Len(ret.value) >= 2
           /\ \A j \in 1..Len(ret.value[1]) : ret.value[1][j] = fromFuture
           /\ \E n \in 2..Len(ret.value) :
                  \E j \in 1..Len(ret.value[n]) : ret.value[n][j] = plainFuture

\* the same for classify_imports.sort alone
C4_FutureImportRebucketedBySort ==
    LET fromFuture == AstImportFrom(s_future, <<alias(s_a, None)>>, 0)
        plainFuture == AstImport(<<alias(s_future, None)>>)
    IN  (/\ SortReturned
         /\ \E i \in 1..Len(imports) : imports[i] = fromFuture
         /\ \E i \in 1..Len(imports) : imports[i] = plainFuture)
        => /\ Len(ret.value) >= 2
           /\ \A j \in 1..Len(ret.value[1]) : ret.value[1][j] = fromFuture
           /\ \E n \in 2..Len(ret.value) :
                  \E j \in 1..Len(ret.value[n]) : ret.value[n][j] = plainFuture


(***************************************************************************)
(* Claims about the classifiers (Spec)                                     *)
(***************************************************************************)

BaseReturned == call = "classify_base" /\ ~ret.raised

\* either classifier has been called
Classified == call \in {"classify_base", "classify_import"}

\* the application directories of the call that there are
ConfiguredDirs ==
    {settings.application_directories[i] :
        i \in 1..Len(settings.application_directories)}
        \ {p \in DirPaths : dirIno[p] = NoIno}

\* what `<p>/<base>` and `<p>/<base>.py` are
PkgAt(p) == fsPkg[dirIno[p]][base]
ModAt(p) == fsMod[dirIno[p]][base]

\* the name is none of the static names, no module of the standard library
\* and not force-listed
PlainName ==
    /\ base \notin {s_future, s_main, s_distutils, s_empty}
    /\ base \notin {s_os, s_sys}
    /\ base \notin settings.unclassifiable_application_modules

\* import resolution knows nothing of the name: no entry of sys.path holds
\* it, sys.path[0] neither
Unresolvable ==
    /\ sysFinds[base] = "none"
    /\ ~(RealPath(sys_path0) = "." /\ CwdHolds(base))

\* C5: whatever the directories hold and the settings say, the class of
\* __future__ is FUTURE, of '' APPLICATION, of __main__ APPLICATION and of
\* distutils THIRD_PARTY; for classify_base and for classify_import.
C5_StaticClassifications ==
    Classified =>
        /\ base = s_future => ret.value = "FUTURE"
        /\ base = s_empty => ret.value = "APPLICATION"
        /\ base = s_main => ret.value = "APPLICATION"
        /\ base = s_distutils => ret.value = "THIRD_PARTY"

\* C6: a name that is no static name and is in
\* unclassifiable_application_modules is classified APPLICATION by
\* classify_base, a module of the standard library too.
C6_UnclassifiableIsApplication ==
    (/\ call = "classify_base"
     /\ base \notin {s_future, s_main, s_distutils, s_empty}
     /\ base \in settings.unclassifiable_application_modules)
    => ret.value = "APPLICATION"

\* C7: a module of the standard library (os, sys) that is no static name and
\* not force-listed is classified BUILTIN by classify_base, whatever the
\* application directories hold.
C7_StdlibIsBuiltin ==
    (/\ call = "classify_base"
     /\ base \in {s_os, s_sys}
     /\ base \notin settings.unclassifiable_application_modules)
    => ret.value = "BUILTIN"

\* C8: a name that is not static, not of the standard library and not
\* force-listed is classified APPLICATION by classify_base when one of the
\* application directories holds a regular file <base>.py or a real
\* directory <base> with an entry; stated for the environments where no
\* directory of the name is unreadable.
C8_LocalIsApplication ==
    (/\ call = "classify_base"
     /\ PlainName
     /\ \A p \in ConfiguredDirs : PkgAt(p) # "noperm"
     /\ \E p \in ConfiguredDirs : PkgAt(p) = "dir" \/ ModAt(p) = "reg")
    => ret.value = "APPLICATION"

\* the application directories hold of the name nothing but a real
\* directory without entries, and no entry of sys.path outside the current
\* directory holds the name
OnlyEmptyDir ==
    /\ PlainName
    /\ sysFinds[base] = "none"
    /\ \E p \in ConfiguredDirs : PkgAt(p) = "emptydir"
    /\ \A p \in ConfiguredDirs :
           PkgAt(p) \in {"absent", "emptydir"} /\ ModAt(p) = "absent"

\* C9: a name that is not static, not of the standard library, not
\* force-listed and held by no entry of sys.path outside the current
\* directory, of which the application directories hold nothing but a real
\* directory without entries, is classified THIRD_PARTY; for classify_base
\* and for classify_import.
C9_EmptyDirIsNoPackage ==
    (Classified /\ OnlyEmptyDir)
    => ret = [raised |-> FALSE, value |-> "THIRD_PARTY"]

\* the same for classify_base alone
C9_EmptyDirIsNoPackageOfClassifyBase ==
    (call = "classify_base" /\ OnlyEmptyDir)
    => ret = [raised |-> FALSE, value |-> "THIRD_PARTY"]

\* classify_import has classified pkg as APPLICATION, ./pkg being a
\* directory without entries and the current directory sys.path[0]
C9_EmptyDirIsNamespace ==
    /\ call = "classify_import"
    /\ base = s_pkg
    /\ OnlyEmptyDir
    /\ PkgAt(".") = "emptydir"
    /\ RealPath(sys_path0) = "."
    /\ ret = [raised |-> FALSE, value |-> "APPLICATION"]

\* the application directories hold the name, and only as symbolic links
OnlySymlinks ==
    /\ \E p \in ConfiguredDirs :
           PkgAt(p) = "linkdir" \/ ModAt(p) \in {"link", "dangling"}
    /\ \A p \in ConfiguredDirs :
           /\ PkgAt(p) \in {"absent", "linkdir"}
           /\ ModAt(p) \in {"absent", "link", "dangling"}

\* C10: a name that is not static and not force-listed, of which the
\* application directories hold symbolic links only (<base>.py to a file or
\* to nothing, <base> to a directory with entries) is not classified
\* APPLICATION, and is classified THIRD_PARTY when it is no module of the
\* standard library and import resolution knows nothing of it; for
\* classify_base and for classify_import.
C10_SymlinkIsNotApplication ==
    (/\ Classified
     /\ base \notin {s_future, s_main, s_distutils, s_empty}
     /\ base \notin settings.unclassifiable_application_modules
     /\ OnlySymlinks)
    => /\ ~ret.raised
       /\ ret.value # "APPLICATION"
       /\ (base \notin {s_os, s_sys} /\ Unresolvable) => ret.value = "THIRD_PARTY"

\* classify_base has classified pkg, ./pkg.py being a symbolic link to a
\* file and tests/pkg one to a directory with entries
C10_Witness ==
    /\ BaseReturned
    /\ base = s_pkg
    /\ settings.application_directories = <<"tests", ".">>
    /\ settings.unclassifiable_application_modules = {}
    /\ dirIno["tests"] = "ino_tests"
    /\ PkgAt(".") = "absent" /\ ModAt(".") = "link"
    /\ PkgAt("tests") = "linkdir" /\ ModAt("tests") = "absent"
    /\ Unresolvable
    /\ ret.value = "THIRD_PARTY"


\* the application directories hold nothing of the name
NothingLocal ==
    \A p \in ConfiguredDirs : PkgAt(p) = "absent" /\ ModAt(p) = "absent"

\* C11: a name that is not static, not force-listed, no module of the
\* standard library, of which the application directories hold nothing and
\* import resolution knows nothing, is classified THIRD_PARTY, and the call
\* returns; for classify_base and for classify_import.
C11_UnresolvableIsThirdParty ==
    (/\ Classified
     /\ PlainName
     /\ NothingLocal
     /\ Unresolvable)
    => ret = [raised |-> FALSE, value |-> "THIRD_PARTY"]

\* the <3.10 classify_base has classified pkg, which is nowhere, with two
\* application directories
C11_Witness ==
    /\ BaseReturned
    /\ runtime = "legacy"
    /\ base = s_pkg
    /\ settings.application_directories = <<".", "tests">>
    /\ dirIno["tests"] = "ino_tests"
    /\ PlainName /\ NothingLocal /\ Unresolvable
    /\ ret.value = "THIRD_PARTY"


\* no directory of the name is unreadable
AllListable ==
    \A i \in Inodes : fsPkg[i][base] # "noperm"

\* C12: a call of a classifier returns a class and raises nothing, whatever
\* the name and the configuration, also for __main__ when the __main__ of
\* the running program has no import spec; stated for the environments
\* where every directory can be listed.
C12_ClassifierNeverRaises ==
    (Classified /\ AllListable) => ~ret.raised

\* C13: an error of the operating system while the file system is probed
\* (the stat of an application directory, of <base>.py or of <base>, the
\* listing of the directory <base>) counts as `does not exist`: the call of
\* the classifier returns; stated for the names import resolution itself
\* does not raise for.
C13_OsErrorsSwallowed ==
    (Classified /\ sysFinds[base] # "valueerror") => ~ret.raised


(***************************************************************************)
(* Claims about PYTHONPATH (SpecPath)                                      *)
(***************************************************************************)

\* the path names of PYTHONPATH
PythonPathEntries ==
    IF pythonpath = <<>> THEN {}
    ELSE {split(pythonpath)[i] : i \in 1..Len(split(pythonpath))}

\* the name resolves through an entry of PYTHONPATH that is not the current
\* directory, and through nothing else
OnlyThroughPythonPath ==
    /\ sysFinds[base] \in {"pythonpath", "zip"}
    /\ LocationOf(base) \in PythonPathEntries
    /\ NothingLocal
    /\ fsMod["ino_cwd"][base] = "absent" /\ fsPkg["ino_cwd"][base] = "absent"

\* C14: a name that resolves only through an entry of PYTHONPATH that is not
\* the current directory, a directory or an archive, alone or beside other
\* entries, is classified THIRD_PARTY; with PYTHONPATH `.` a name that is
\* the file <base>.py of the application directory `.` is classified
\* APPLICATION; for classify_base and for classify_import.
C14_PythonPathIsThirdParty ==
    Classified =>
        /\ OnlyThroughPythonPath => ret.value = "THIRD_PARTY"
        /\ (/\ pythonpath = <<".">>
            /\ "." \in ConfiguredDirs
            /\ ModAt(".") = "reg") => ret.value = "APPLICATION"

\* the same without the archive
C14_PythonPathDirectoryIsThirdParty ==
    Classified =>
        /\ (OnlyThroughPythonPath /\ sysFinds[base] = "pythonpath")
               => ret.value = "THIRD_PARTY"
        /\ (/\ pythonpath = <<".">>
            /\ "." \in ConfiguredDirs
            /\ ModAt(".") = "reg") => ret.value = "APPLICATION"

(***************************************************************************)
(* Claims about the statement objects (SpecObj)                            *)
(***************************************************************************)

\* the statement of the i-th name of obj alone, with the module and the
\* level of obj
OneName(obj, i) ==
    IF IsImport(obj) THEN AstImport(<<obj.names[i]>>)
    ELSE AstImportFrom(obj.module, <<obj.names[i]>>, obj.level)

\* the part is the statement alone that a constructor returned, and equal
\* to it
IsAlone(part, alone, lib) ==
    /\ ~alone.raised
    /\ part = alone.value
    /\ IF lib = "aspy" THEN aspy_eq(part, alone.value)
       ELSE eq(part, alone.value)

\* the parts are one single-name statement of the type of obj for every
\* name of obj, in the order of the names, each the statement that the
\* constructor makes of the text of that name alone
SplitsInOrder(obj, parts, lib) ==
    /\ Len(parts) = Len(obj.names)
    /\ \A i \in 1..Len(parts) :
           /\ parts[i].type = obj.type
           /\ Len(parts[i].names) = 1
           /\ IsAlone(parts[i],
                      IF lib = "aspy"
                      THEN aspy_import_obj_from_str(Canonical(OneName(obj, i)))
                      ELSE import_obj_from_str(Canonical(OneName(obj, i))),
                      lib)
    /\ Len(obj.names) = 1 => parts = <<obj>>

\* C15: split() of a statement with n names returns n statements of the
\* type of the statement, each of one name, in the order in which the source
\* declared the names; the i-th is equal to the statement constructed from
\* the i-th name and alias alone with the module and the level of the
\* statement, and a statement of one name is returned as it is. The same for
\* split_imports() of import_obj.py.
C15_SplitKeepsDeclarationOrder ==
    /\ call = "split" => /\ ~ret.raised
                         /\ SplitsInOrder(imports[1], ret.value, "classify_imports")
    /\ call = "split_imports" => /\ ~ret.raised
                                 /\ SplitsInOrder(imports[1], ret.value, "aspy")

\* a statement of two names was split whose names are not in alphabetical
\* order in the source
C15_Witness ==
    /\ call = "split"
    /\ Len(imports[1].names) = 2
    /\ Len(ret.value) = 2
    /\ StrLt(_ast_alias_to_s(imports[1].names[2]),
             _ast_alias_to_s(imports[1].names[1]))

\* the module, the symbol and the alias a statement is written with: the
\* dotted name and the alias of a plain import, the module with its leading
\* dots, the symbol and the alias of a from-import; of the first name when
\* the statement lists several
DefiningFields(obj) ==
    IF obj.type = "Import"
        THEN <<obj.names[1].name, obj.names[1].asname>>
        ELSE <<obj.level, obj.module, obj.names[1].name, obj.names[1].asname>>

\* the strings of the fields, case-folded
FoldedDefiningFields(obj) ==
    IF obj.type = "Import"
        THEN <<lower(obj.names[1].name), lower(obj.names[1].asname)>>
        ELSE <<obj.level, lower(obj.module), lower(obj.names[1].name),
               lower(obj.names[1].asname)>>

Compared == call \in {"eq", "aspy_eq"}

\* C16: two statements constructed from the same text are equal and have
\* the same hash; two statements of one type that differ in module, symbol
\* or alias, be it in the case of a letter only, are not equal; a plain
\* import and a from-import are not equal, and comparing them returns False
\* and does not raise.
C16_EqualityByTypeAndFields ==
    Compared =>
        /\ ~ret.raised
        /\ texts[1] = texts[2] =>
               /\ ret.value.eq
               /\ ret.value.hashes[1] = ret.value.hashes[2]
        /\ (/\ imports[1].type = imports[2].type
            /\ DefiningFields(imports[1]) # DefiningFields(imports[2]))
               => ~ret.value.eq
        /\ imports[1].type # imports[2].type => ~ret.value.eq

\* two statements of one type were compared that differ in the case of a
\* letter and in nothing else
C16_Witness ==
    /\ call = "eq"
    /\ imports[1].type = imports[2].type
    /\ DefiningFields(imports[1]) # DefiningFields(imports[2])
    /\ FoldedDefiningFields(imports[1]) = FoldedDefiningFields(imports[2])
    /\ ~ret.value.eq

\* blank, tab, newline, form feed or carriage return
IsWhitespace(c) == c \in {32, 9, 10, 12, 13}

\* the last character in front of i, and the first behind i, that is no
\* whitespace; 0 when there is none
PrevWritten(s, i) ==
    IF \E j \in 1..(i - 1) : ~IsWhitespace(s[j])
        THEN CHOOSE j \in 1..(i - 1) :
                 /\ ~IsWhitespace(s[j])
                 /\ \A k \in (j + 1)..(i - 1) : IsWhitespace(s[k])
        ELSE 0

NextWritten(s, i) ==
    IF \E j \in (i + 1)..Len(s) : ~IsWhitespace(s[j])
        THEN CHOOSE j \in (i + 1)..Len(s) :
                 /\ ~IsWhitespace(s[j])
                 /\ \A k \in (i + 1)..(j - 1) : IsWhitespace(s[k])
        ELSE 0

\* the word `from` ends at p
EndsFrom(s, p) ==
    /\ p >= 4
    /\ SubSeq(s, p - 3, p) = kw_from
    /\ p = 4 \/ ~IsNameChar(s[p - 4])

\* the word that starts at n
WordAt(s, n) == SubSeq(s, n, name_end(s, n) - 1)

\* the whitespace at i is inside a dotted path: behind a dot and not in
\* front of `import`, or in front of a dot and not behind `from`
InPathGap(s, i) ==
    /\ IsWhitespace(s[i])
    /\ LET p == PrevWritten(s, i)
           n == NextWritten(s, i)
       IN  /\ p > 0 /\ n > 0
           /\ \/ s[p] = 46 /\ WordAt(s, n) # kw_import
              \/ s[n] = 46 /\ ~EndsFrom(s, p)

\* s without the whitespace inside its dotted paths
RECURSIVE WithoutPathGapsIn(_, _, _)
WithoutPathGapsIn(s, lo, hi) ==
    IF lo > hi THEN <<>>
    ELSE IF lo = hi THEN IF InPathGap(s, lo) THEN <<>> ELSE <<s[lo]>>
    ELSE LET mid == (lo + hi) \div 2
         IN  WithoutPathGapsIn(s, lo, mid) \o WithoutPathGapsIn(s, mid + 1, hi)

WithoutPathGaps(s) == WithoutPathGapsIn(s, 1, Len(s))

\* s with every run of whitespace between two written characters one blank,
\* and no whitespace in front and at the end
RECURSIVE CollapsedIn(_, _, _)
CollapsedIn(s, lo, hi) ==
    IF lo > hi THEN <<>>
    ELSE IF lo = hi
        THEN IF ~IsWhitespace(s[lo]) THEN <<s[lo]>>
             ELSE IF /\ lo > 1 /\ ~IsWhitespace(s[lo - 1])
                     /\ NextWritten(s, lo) > 0
                 THEN s_space
             ELSE <<>>
    ELSE LET mid == (lo + hi) \div 2
         IN  CollapsedIn(s, lo, mid) \o CollapsedIn(s, mid + 1, hi)

\* s with every run of whitespace collapsed to one blank and exactly one
\* newline at the end
Normalised(s) == CollapsedIn(s, 1, Len(s)) \o s_nl

\* str() of a statement of one name has returned
Rendered == call = "str" /\ Len(imports[1].names) = 1

\* the statement was constructed and renders to t
RendersTo(again, t) ==
    /\ ~again.raised
    /\ ~str(again.value).raised
    /\ str(again.value).value = t

\* rendering the statement constructed from the rendered text gives the
\* rendered text again
RendersToItself(t) == RendersTo(import_obj_from_str(t), t)

\* C17 as stated: for every text s of one plain import or from-import,
\* render(construct(s)) is s with every run of whitespace collapsed to one
\* blank and exactly one newline at the end, and rendering is idempotent.
C17_RenderCollapsesWhitespace ==
    Rendered =>
        /\ ~ret.raised
        /\ ret.value = Normalised(texts[1])
        /\ RendersToItself(ret.value)

\* the text is written with words, dots, `*` and whitespace and with
\* nothing else: without a comment, a line continuation, parentheses or a
\* `;`, and without a letter that the names of the nodes do not keep
PlainlyWritten(s) ==
    \A i \in 1..Len(s) :
        \/ IsWhitespace(s[i])
        \/ s[i] \in {46, 42}
        \/ is_potential_identifier_char(s[i]) /\ nfkc(<<s[i]>>) = <<s[i]>>

\* C17: for every text s of one plain import or from-import of one name,
\* render(construct(s)) is the text of the statement in the canonical
\* layout, a relative from-import with its dots and `from . import x` with
\* its bare dots, and rendering is idempotent; when s is written with
\* words, dots and whitespace only, render(construct(s)) is s with the
\* whitespace inside the dotted paths removed (between the leading dots,
\* and between a dot and a name of the path), every other run of whitespace
\* collapsed to one blank and exactly one newline at the end.
C17_RenderIsCanonical ==
    Rendered =>
        /\ ~ret.raised
        /\ PlainlyWritten(texts[1]) =>
               ret.value = Normalised(WithoutPathGaps(texts[1]))
        /\ ret.value = Canonical(imports[1]) \o s_nl
        /\ RendersToItself(ret.value)

\* a relative from-import was rendered whose text had whitespace to drop
C17_Witness ==
    /\ Rendered
    /\ ~ret.raised
    /\ imports[1].level >= 1
    /\ Len(texts[1]) > Len(ret.value)

\* the display forms of the names of a statement, in the order of the source
Shown(obj) ==
    [i \in 1..Len(obj.names) |->
        IF obj.names[i].asname = None THEN obj.names[i].name
        ELSE obj.names[i].name \o <<32, 97, 115, 32>> \o obj.names[i].asname]

\* ds lists the strings of shown, each as often as shown does, none in
\* front of a smaller one by code points
IsSorted(ds, shown) ==
    /\ Len(ds) = Len(shown)
    /\ \E f \in Permutations(1..Len(shown)) :
           ds = [i \in 1..Len(shown) |-> shown[f[i]]]
    /\ \A i \in 1..Len(ds) : \A j \in i..Len(ds) : ~StrLt(ds[j], ds[i])

\* the strings with `, ` between them
RECURSIVE Listed(_)
Listed(ds) ==
    IF Len(ds) = 1 THEN ds[1] ELSE ds[1] \o <<44, 32>> \o Listed(Tail(ds))

\* `import ` or `from <dots><module> import `
Clause(obj) ==
    IF obj.type = "Import" THEN kw_import \o s_space
    ELSE kw_from \o s_space \o Dots(obj.level) \o OrEmpty(obj.module)
             \o s_space \o kw_import \o s_space

\* the statement with its names in the order f
Reordered(obj, f) ==
    [obj EXCEPT !.names = [i \in 1..Len(obj.names) |-> obj.names[f[i]]]]

\* C18: to_text() of a statement lists the display forms `name` or
\* `name as alias` of its names sorted by code points (case-sensitive) with
\* `, ` between them, behind `import ` or `from <module> import ` and in
\* front of one newline, whatever the order of the names in the source: the
\* statement with its names in any other order renders to the same text.
C18_MultiNameRenderingSorted ==
    call = "to_text" =>
        /\ ~ret.raised
        /\ \E ds \in {[i \in 1..Len(imports[1].names) |-> Shown(imports[1])[f[i]]] :
                        f \in Permutations(1..Len(imports[1].names))} :
               /\ IsSorted(ds, Shown(imports[1]))
               /\ ret.value = Clause(imports[1]) \o Listed(ds) \o s_nl
        /\ \A f \in Permutations(1..Len(imports[1].names)) :
               to_text(Reordered(imports[1], f)) = ret.value

\* a statement was rendered that names `a` in front of `B`
C18_Witness ==
    /\ call = "to_text"
    /\ Len(imports[1].names) = 2
    /\ imports[1].names[1].name = s_a
    /\ imports[1].names[2].name = s_B
    /\ ret.value # Clause(imports[1]) \o Listed(Shown(imports[1])) \o s_nl

\* C19: in classify_imports, str() and repr() of a statement of several
\* names raise and return no text, str() and repr() of a statement of one
\* name return its text, and every statement that split() returns can be
\* rendered by both.
C19_OnlySingleNameRenders ==
    /\ call \in {"str", "repr"} =>
           /\ ret.raised <=> Len(imports[1].names) > 1
           /\ ret.raised => ret.value = Raised
           /\ ~ret.raised => ret.value # <<>>
    /\ call = "split" =>
           \A i \in 1..Len(ret.value) :
               /\ ~str(ret.value[i]).raised
               /\ ~repr(ret.value[i]).raised

\* str() of a statement of two names has raised
C19_Witness ==
    /\ call = "str"
    /\ Len(imports[1].names) = 2
    /\ ret.raised

\* the texts of the plain imports and of the from-imports, in every layout
PlainTexts ==
    {Unparse(n, g, d, t) :
        n \in {m \in NodeUniverse : m.type = "Import"},
        g \in Gaps, d \in DotGaps, t \in Ends}
    \cup PlainLayouts

FromTexts ==
    {Unparse(n, g, d, t) :
        n \in {m \in NodeUniverse : m.type = "ImportFrom"},
        g \in Gaps, d \in DotGaps, t \in Ends}
    \cup FromLayouts

\* a constructor has run on one text: tp is "any" for a generic constructor
Constructed(tp) ==
    /\ Len(texts) = 1
    /\ \/ call = "import_obj_from_str" /\ tp = "any"
       \/ call = "from_str" /\ opts = <<tp>>

\* the constructor returned one statement of type tp
Made(tp) ==
    /\ ~ret.raised
    /\ imports = ret.value
    /\ Len(imports) = 1
    /\ imports[1].type = tp

\* the constructor raised and there is no statement
MadeNothing ==
    /\ ret.raised
    /\ imports = <<>>
    /\ strMemo = {}

\* C20: a generic constructor returns a plain import for the text of a
\* plain import and a from-import for the text of a from-import; a typed
\* constructor does so for a text of its shape and raises, constructing
\* nothing, for a text of the other shape; every constructor raises for a
\* text that is no import statement.
C20_ConstructionMatchesShape ==
    /\ Constructed("any") =>
           /\ texts[1] \in PlainTexts => Made("Import")
           /\ texts[1] \in FromTexts => Made("ImportFrom")
    /\ Constructed("Import") =>
           /\ texts[1] \in PlainTexts => Made("Import")
           /\ texts[1] \in FromTexts => MadeNothing
    /\ Constructed("ImportFrom") =>
           /\ texts[1] \in FromTexts => Made("ImportFrom")
           /\ texts[1] \in PlainTexts => MadeNothing
    /\ (call \in {"import_obj_from_str", "from_str"} /\ Len(texts) = 1
            /\ texts[1] \in OtherTexts \cup OtherStatements) => MadeNothing

\* the constructor of plain imports was given the text of a from-import
C20_Witness ==
    /\ Constructed("Import")
    /\ texts[1] \in FromTexts
    /\ ret.raised

(***************************************************************************)
(* Claims about the caches (SpecCache)                                     *)
(***************************************************************************)

\* the entries i and j of the history are calls with the same base and the
\* same settings
SameArguments(i, j) ==
    /\ history[i].op = "classify_base" /\ history[j].op = "classify_base"
    /\ history[i].base = history[j].base
    /\ history[i].settings = history[j].settings

\* the entries i and j of the history are calls with the same arguments,
\* written the same way
SameCall(i, j) == SameArguments(i, j) /\ history[i].form = history[j].form

\* no cache was cleared between the entries i and j
NoClearBetween(i, j) ==
    \A k \in (i + 1)..(j - 1) :
        history[k].op \notin {"cache_clear", "classify_base.cache_clear"}

\* the class a process that has classified nothing yet gives the name b
\* under the settings s, the directories being as they are now: os is of
\* the standard library, pkg is of the application when an application
\* directory that exists holds the file pkg.py
FreshClass(b, s) ==
    IF b = s_os THEN "BUILTIN"
    ELSE IF \E i \in 1..Len(s.application_directories) :
                /\ dirIno[s.application_directories[i]] # NoIno
                /\ fsMod[dirIno[s.application_directories[i]]][b] = "reg"
        THEN "APPLICATION"
    ELSE "THIRD_PARTY"

\* the last operation was a classify_base call, the one before it op
CalledAfter(op) ==
    /\ Len(history) >= 2
    /\ history[Len(history)].op = "classify_base"
    /\ history[Len(history) - 1].op = op

\* the last operation repeats an earlier call, no cache cleared in between
Repeated ==
    /\ call = "classify_base"
    /\ \E i \in 1..(Len(history) - 1) :
           SameCall(i, Len(history)) /\ NoClearBetween(i, Len(history))

\* the last operation is a call with the base and the settings of an
\* earlier call, no cache cleared in between
RepeatedArguments ==
    /\ call = "classify_base"
    /\ \E i \in 1..(Len(history) - 1) :
           SameArguments(i, Len(history)) /\ NoClearBetween(i, Len(history))

\* C21 as it is stated: a classify_base call returns what the first call
\* with the same base and settings returned as long as no cache was cleared
\* in between, whatever has changed in the directories, and a repeated
\* call makes no access to the file system; the call that follows the
\* clearing of both caches gives the class the directories have the name in
\* now, and has looked at them for it.
C21_MemoizedOnBaseAndSettings ==
    /\ \A i \in 1..Len(history), j \in 1..Len(history) :
           (i < j /\ SameArguments(i, j) /\ NoClearBetween(i, j))
               => history[j].ret = history[i].ret
    /\ RepeatedArguments => probes = <<>>
    /\ CalledAfter("cache_clear") =>
           /\ ret = Returned(FreshClass(base, settings))
           /\ base = s_pkg => probes # <<>>

\* C21 for the calls that are written the same way: a classify_base call
\* returns what the first call with the same base and settings, written
\* with the same positional and keyword arguments, returned as long as no
\* cache was cleared in between, whatever has changed in the directories,
\* and such a repeated call makes no access to the file system; a call that
\* repeats no call written its way is computed, and looks at the
\* directories for pkg; the call that follows the clearing of both caches
\* gives the class the directories have the name in now, and has looked at
\* them for it.
C21_MemoizedUntilCleared ==
    /\ \A i \in 1..Len(history), j \in 1..Len(history) :
           (i < j /\ SameCall(i, j) /\ NoClearBetween(i, j))
               => history[j].ret = history[i].ret
    /\ Repeated => probes = <<>>
    /\ (call = "classify_base" /\ ~Repeated) =>
           /\ ret.value = classify_base_body(base, settings)
           /\ base = s_pkg => probes # <<>>
    /\ CalledAfter("cache_clear") =>
           /\ ret = Returned(FreshClass(base, settings))
           /\ base = s_pkg => probes # <<>>

\* pkg was THIRD_PARTY, pkg.py was written, pkg was THIRD_PARTY again, both
\* caches were cleared, pkg was APPLICATION
C21_Witness ==
    /\ Len(history) = 5
    /\ history[1].form = "keyword"
    /\ SameCall(1, 3) /\ SameCall(3, 5)
    /\ history[1].ret = "THIRD_PARTY"
    /\ history[2].op = "touch"
    /\ history[3].ret = "THIRD_PARTY"
    /\ history[4].op = "cache_clear"
    /\ history[5].ret = "APPLICATION"
    /\ FreshClass(base, settings) = "APPLICATION"

\* C28: the classify_base call that follows classify_base.cache_clear()
\* returns the class a process that has classified nothing yet gives the
\* name for the directories as they are now, whatever calls and changes of
\* the directories came before.
C28_ClassifyCacheClearSuffices ==
    CalledAfter("classify_base.cache_clear") =>
        ret = Returned(FreshClass(base, settings))

(***************************************************************************)
(* Claims about the order of the input of sort (SpecSort)                  *)
(***************************************************************************)

\* the sequence xs in the order p of its positions
Reorder(xs, p) == [i \in 1..Len(xs) |-> xs[p[i]]]

\* the orders of n positions
Orders(n) == {p \in [1..n -> 1..n] : \A i, j \in 1..n : p[i] = p[j] => i = j}

\* no statement is twice in the collection
Distinct(xs) == \A i, j \in 1..Len(xs) : xs[i] = xs[j] => i = j

\* C22: for a collection of distinct statements, of one name or of several,
\* sort returns the same groups with the same statements at the same places
\* for every order of the collection, the settings and the directories
\* being the same.
C22_SortIndependentOfOrder ==
    (SortReturned /\ Distinct(imports)) =>
        \A p \in Orders(Len(imports)) :
            sort(Reorder(imports, p), settings) = ret

\* the statements of imports that classify_import gives the class FUTURE,
\* and the others
FutureOnes == SelectSeq(imports, LAMBDA obj : AspyClass(obj) = "FUTURE")
OtherOnes == SelectSeq(imports, LAMBDA obj : AspyClass(obj) # "FUTURE")

\* the group g holds the statements of xs, each as often as xs does, in the
\* order within a group
IsGroupOf(g, xs) ==
    /\ Len(g) = Len(xs)
    /\ \A x \in StatementUniverse : Count(x, g) = Count(x, xs)
    /\ \A j \in 1..(Len(g) - 1) :
           IF opts[2] THEN NotAfter(g[j], g[j + 1])
           ELSE NotAfterByFields(g[j], g[j + 1])

\* C23: the aspy sort called with separate=False returns at most two groups:
\* the statements classified FUTURE, if there are any, then all the other
\* statements together, if there are any, each group in the order within a
\* group.
C23_NotSeparateTwoGroups ==
    (call = "aspy_sort" /\ ~opts[1]) =>
        /\ ~ret.raised
        /\ Len(ret.value) =< 2
        /\ Len(ret.value) =
               (IF FutureOnes = <<>> THEN 0 ELSE 1)
                   + (IF OtherOnes = <<>> THEN 0 ELSE 1)
        /\ FutureOnes # <<>> => IsGroupOf(ret.value[1], FutureOnes)
        /\ OtherOnes # <<>> => IsGroupOf(ret.value[Len(ret.value)], OtherOnes)

(***************************************************************************)
(* Claims about the accesses of a classification (Spec)                    *)
(***************************************************************************)

\* the call is decided by a static override: the name is '', __future__,
\* __main__ or distutils, or classify_base is called for a force-listed name
StaticallyDecided ==
    \/ base \in {s_empty, s_future, s_main, s_distutils}
    \/ call = "classify_base"
           /\ base \in settings.unclassifiable_application_modules

\* C24: a call of a classifier that a static override decides has made no
\* stat, no directory listing and no module-spec lookup when it returns; for
\* classify_base and for classify_import.
C24_StaticBeforeProbes ==
    (Classified /\ StaticallyDecided) => probes = <<>>

\* the same for classify_base alone
C24_StaticBeforeProbesOfClassifyBase ==
    (call = "classify_base" /\ StaticallyDecided) => probes = <<>>


(***************************************************************************)
(* Claims about the local paths of classify_import (SpecPath)              *)
(***************************************************************************)

\* the application directory p holds an entry of the name of the call
HoldsTheName(p) ==
    /\ dirIno[p] # NoIno
    /\ PkgAt(p) # "absent" \/ ModAt(p) # "absent"

\* C25: classify_import answers APPLICATION for a name that is not the
\* empty name of a relative import only when the module is an entry of one
\* of the application directories of the call: a file beside the directory
\* whose path merely starts with the text of the directory is not local.
C25_LocalIsDirectChild ==
    (/\ call = "classify_import"
     /\ ~ret.raised
     /\ base # s_empty
     /\ ret.value = "APPLICATION")
        => \E i \in 1..Len(settings.application_directories) :
               HoldsTheName(settings.application_directories[i])


(***************************************************************************)
(* Claims about the application directories (SpecApp)                      *)
(***************************************************************************)

\* the application directories of the call
AppDirs == settings.application_directories

\* the positions of AppDirs whose directory exists and is at no earlier
\* position, under this name or another
FirstOccurrences ==
    {i \in 1..Len(AppDirs) :
        /\ dirIno[AppDirs[i]] # NoIno
        /\ \A j \in 1..(i - 1) : dirIno[AppDirs[j]] # dirIno[AppDirs[i]]}

\* the k-th of the first occurrences
KthFirstOccurrence(k) ==
    CHOOSE i \in FirstOccurrences :
        Cardinality({j \in FirstOccurrences : j < i}) = k - 1

\* no existing application directory of the call holds the name
NoAppDirHoldsTheName ==
    \A p \in ConfiguredDirs : PkgAt(p) = "absent" /\ ModAt(p) = "absent"

\* C26: _get_app returns the application directories that exist, each
\* directory once at the place of its first occurrence, in the order they
\* are listed; and classify_base of a name that is neither static nor in the
\* standard library nor force-listed, of which no existing application
\* directory holds anything (there is no application directory, or the name
\* lies beside a directory that is missing), is not APPLICATION.
C26_GetAppKeepsFirstExisting ==
    /\ call = "_get_app" =>
           /\ Len(ret.value) = Cardinality(FirstOccurrences)
           /\ \A k \in 1..Len(ret.value) :
                  ret.value[k] = AppDirs[KthFirstOccurrence(k)]
    /\ (BaseReturned /\ PlainName /\ NoAppDirHoldsTheName)
           => ret.value # "APPLICATION"

\* _get_app was handed the current directory and a second path to it, and
\* returned the current directory alone
C26_Witness ==
    /\ call = "_get_app"
    /\ AppDirs = <<".", "tests">>
    /\ dirIno["tests"] = "ino_cwd"
    /\ ret.value = <<".">>

\* classify_base was called with an application directory that is missing
\* while the current directory holds pkg.py, and returned THIRD_PARTY
C26_WitnessMissing ==
    /\ BaseReturned
    /\ AppDirs = <<"tests">>
    /\ dirIno["tests"] = NoIno
    /\ fsMod["ino_cwd"][base] = "reg"
    /\ ret.value = "THIRD_PARTY"


(***************************************************************************)
(* Claims about the local lookup over several directories (Spec)           *)
(***************************************************************************)

\* the settings of the call with the application directories listed the
\* other way round
OtherWayRound ==
    Settings([i \in 1..Len(AppDirs) |-> AppDirs[Len(AppDirs) + 1 - i]],
             settings.unclassifiable_application_modules)

\* an existing application directory of the call holds a regular file
\* <base>.py or a real directory <base> with an entry
SomeAppDirHoldsTheModule ==
    \E p \in ConfiguredDirs : PkgAt(p) = "dir" \/ ModAt(p) = "reg"

\* C27: classify_base of a name that is neither static nor in the standard
\* library nor force-listed returns APPLICATION as soon as one existing
\* application directory holds the module, whatever the other application
\* directories hold, and does so too when the directories are listed the
\* other way round.
C27_LocalLookupIsExists ==
    (/\ call = "classify_base"
     /\ PlainName
     /\ SomeAppDirHoldsTheModule)
        => /\ ret.value = "APPLICATION"
           /\ classify_base_body(base, OtherWayRound) = "APPLICATION"


(***************************************************************************)
(* Claims about the statements of several names (SpecObj)                  *)
(***************************************************************************)

\* C29: two statement objects that compare equal have the same hash, be
\* they of one name or of several, in classify_imports.py and in
\* import_obj.py.
C29_EqualImpliesSameHash ==
    (Compared /\ ret.value.eq)
        => ret.value.hashes[1] = ret.value.hashes[2]

\* the same for the objects of classify_imports.py alone
C29_EqualImpliesSameHashOfClassifyImports ==
    (call = "eq" /\ ret.value.eq)
        => ret.value.hashes[1] = ret.value.hashes[2]

\* the module with its leading dots, and every name with its alias
AllFields(obj) ==
    IF obj.type = "Import" THEN <<obj.names>>
    ELSE <<obj.level, obj.module, obj.names>>

\* C30: two statements compare equal only if they are of one type and have
\* the same module and the same names and aliases, name for name: a
\* statement of several names is not equal to the statement of its first
\* name alone.
C30_EqualityTakesEveryName ==
    (Compared /\ ret.value.eq)
        => /\ imports[1].type = imports[2].type
           /\ AllFields(imports[1]) = AllFields(imports[2])

====
